---- MODULE Spec2Model ----
(***************************************************************************)
(* A model of the ClickUp playbooks MCP server: the document analyzer      *)
(* (src/src/document-analyzer.ts), the ClickUp client's document fetches   *)
(* (src/src/clickup-client.ts) and the tool-call handler                   *)
(* (src/src/index.ts).                                                     *)
(*                                                                         *)
(* A text is a sequence of one-character strings, so that the regular      *)
(* expressions and the string methods of the source are computed character *)
(* by character.                                                           *)
(***************************************************************************)
EXTENDS Integers, Sequences, FiniteSets, TLC

VARIABLES
    doc,        \* analyzer input: the document handed to analyzeDocument
    docs,       \* analyzer input: the document list handed to searchDocuments / answerQuestion
    query,      \* analyzer input: the query or question text
    out,        \* the value the last analyzer operation returned
    config,     \* ClickUpClient.config: [apiToken, workspaceId]
    remote,     \* the ClickUp workspace: the documents its listing endpoint returns
    pc,         \* position of the running client method / handler
    call,       \* the running client method and its argument
    listing,    \* filteredDocs / allDocs: the listed documents still to be processed
    acc,        \* docs: the ClickUpDoc list the running client method has built so far
    net,        \* the outstanding HTTP request, or NoRequest
    ret,        \* what the last client method resolved to
    tool,       \* the tool call being handled: [name, args]
    response,   \* what the tool-call handler returned
    log         \* the exchanges with the service so far, each [request, status]

vars == <<doc, docs, query, out, config, remote, pc, call, listing, acc, net, ret,
          tool, response, log>>

analyzerVars == <<doc, docs, query, out>>
clientVars == <<config, remote, pc, call, listing, acc, net, ret, log>>
serverVars == <<tool, response>>

----------------------------------------------------------------------------
(* Characters and texts *)

Digit == {"0","1","2","3","4","5","6","7","8","9"}

LowerLetter ==
    {"a","b","c","d","e","f","g","h","i","j","k","l","m",
     "n","o","p","q","r","s","t","u","v","w","x","y","z"}

UpperLetter ==
    {"A","B","C","D","E","F","G","H","I","J","K","L","M",
     "N","O","P","Q","R","S","T","U","V","W","X","Y","Z"}

\* \w of a JavaScript regular expression
WordChar == Digit \cup LowerLetter \cup UpperLetter \cup {"_"}

\* \s of a JavaScript regular expression, within the model's alphabet
WhiteSpace == {" ", "\n", "\t"}

LowerOf ==
    ("A" :> "a") @@ ("B" :> "b") @@ ("C" :> "c") @@ ("D" :> "d") @@ ("E" :> "e") @@
    ("F" :> "f") @@ ("G" :> "g") @@ ("H" :> "h") @@ ("I" :> "i") @@ ("J" :> "j") @@
    ("K" :> "k") @@ ("L" :> "l") @@ ("M" :> "m") @@ ("N" :> "n") @@ ("O" :> "o") @@
    ("P" :> "p") @@ ("Q" :> "q") @@ ("R" :> "r") @@ ("S" :> "s") @@ ("T" :> "t") @@
    ("U" :> "u") @@ ("V" :> "v") @@ ("W" :> "w") @@ ("X" :> "x") @@ ("Y" :> "y") @@
    ("Z" :> "z")

\* String.prototype.toLowerCase
toLowerCase(s) ==
    [k \in 1..Len(s) |-> IF s[k] \in UpperLetter THEN LowerOf[s[k]] ELSE s[k]]

\* s.substring(a - 1, b - 1): the characters at positions a .. b-1
Sub(s, a, b) == SubSeq(s, a, b - 1)

\* whether w occurs in s at position i
OccursAt(s, w, i) ==
    /\ i >= 1
    /\ i + Len(w) - 1 <= Len(s)
    /\ \A k \in 1..Len(w) : s[i + k - 1] = w[k]

\* String.prototype.includes (the empty string is included in every string)
includes(s, w) == \E i \in 1..(Len(s) + 1) : OccursAt(s, w, i)

\* String.prototype.startsWith
startsWith(s, w) == OccursAt(s, w, 1)

RECURSIVE CountFrom(_, _, _)
\* the occurrences of w in s found scanning left to right from position i,
\* each search resuming after the previous occurrence
CountFrom(s, w, i) ==
    LET hits == {j \in i..(Len(s) - Len(w) + 1) : OccursAt(s, w, j)}
    IN  IF hits = {} THEN 0
        ELSE LET j == CHOOSE x \in hits : \A y \in hits : x <= y
             IN  1 + CountFrom(s, w, j + Len(w))

\* s.split(w).length - 1, for a non-empty separator w
SplitCount(s, w) == CountFrom(s, w, 1)

\* String.prototype.trim
trim(s) ==
    LET inked == {i \in 1..Len(s) : s[i] \notin WhiteSpace}
    IN  IF inked = {} THEN <<>>
        ELSE SubSeq(s, CHOOSE i \in inked : \A j \in inked : i <= j,
                       CHOOSE i \in inked : \A j \in inked : i >= j)

RECURSIVE Concat(_)
\* the concatenation of a sequence of texts
Concat(ss) == IF ss = <<>> THEN <<>> ELSE Head(ss) \o Concat(Tail(ss))

RECURSIVE Join(_, _)
\* Array.prototype.join
Join(ss, sep) ==
    IF ss = <<>> THEN <<>>
    ELSE IF Len(ss) = 1 THEN ss[1]
    ELSE ss[1] \o sep \o Join(Tail(ss), sep)

RECURSIVE Dedup(_)
\* [...new Set(xs)]: the first occurrence of every element, in insertion order
Dedup(xs) ==
    IF xs = <<>> THEN <<>>
    ELSE LET init == Dedup(SubSeq(xs, 1, Len(xs) - 1))
             x == xs[Len(xs)]
         IN  IF \E k \in 1..Len(init) : init[k] = x THEN init ELSE Append(init, x)

\* xs.filter(x => x.trim())
SelectNonBlank(xs) == SelectSeq(xs, LAMBDA x : trim(x) # <<>>)

----------------------------------------------------------------------------
(* Regular expressions: a backtracking matcher with JavaScript's priorities. *)
(* M(r, s, i, c) is the sequence, in the order a backtracking engine tries   *)
(* them, of the ways r matches s from position i: each with the position e   *)
(* after the match and the capture groups c (a group is <<first, after>>,    *)
(* <<0, 0>> while unset).                                                    *)

NoCaps == << <<0, 0>>, <<0, 0>> >>

Chr(S) == [t |-> "chr", c |-> S]
Not(S) == [t |-> "not", c |-> S]
Cat(ps) == [t |-> "cat", ps |-> ps]
Alt(ps) == [t |-> "alt", ps |-> ps]
Star(r) == [t |-> "star", r |-> r]
LazyStar(r) == [t |-> "lazystar", r |-> r]
Opt(r) == [t |-> "opt", r |-> r]
Plus(r) == Cat(<<r, Star(r)>>)
LazyPlus(r) == Cat(<<r, LazyStar(r)>>)
Grp(n, r) == [t |-> "grp", n |-> n, r |-> r]
NotAhead(r) == [t |-> "notahead", r |-> r]
WordBoundary == [t |-> "wb"]
EndOfInput == [t |-> "end"]
StartOfInput == [t |-> "start"]
Str(w) == Cat([k \in 1..Len(w) |-> Chr({w[k]})])

IsWordAt(s, i) == i >= 1 /\ i <= Len(s) /\ s[i] \in WordChar

\* whether the one-character pattern r (a class or a negated class) accepts ch
Accepts(r, ch) == IF r.t = "chr" THEN ch \in r.c ELSE ch \notin r.c

\* the position after the longest run of characters from i that r accepts
RunEnd(r, s, i) ==
    LET stops == {j \in i..(Len(s) + 1) : j = Len(s) + 1 \/ ~Accepts(r, s[j])}
    IN  CHOOSE j \in stops : \A k \in stops : j <= k

RECURSIVE M(_, _, _, _), MSeq(_, _, _, _), MAlt(_, _, _, _, _), Bind(_, _, _, _, _),
          BindStar(_, _, _, _, _, _)

M(r, s, i, c) ==
    CASE r.t = "chr" ->
            IF i <= Len(s) /\ s[i] \in r.c THEN <<[e |-> i + 1, c |-> c]>> ELSE <<>>
      [] r.t = "not" ->
            IF i <= Len(s) /\ s[i] \notin r.c THEN <<[e |-> i + 1, c |-> c]>> ELSE <<>>
      [] r.t = "cat" -> MSeq(r.ps, 1, s, <<[e |-> i, c |-> c]>>)
      [] r.t = "alt" -> MAlt(r.ps, 1, s, i, c)
      [] r.t = "star" ->
            IF r.r.t \in {"chr", "not"}
            THEN \* a starred character class: the longest run first, then shorter ones
                 LET stop == RunEnd(r.r, s, i)
                 IN  [n \in 1..(stop - i + 1) |-> [e |-> stop + 1 - n, c |-> c]]
            ELSE LET firsts == M(r.r, s, i, c)
                 IN  BindStar(r, s, i, firsts, 1, Len(firsts)) \o <<[e |-> i, c |-> c]>>
      [] r.t = "lazystar" ->
            IF r.r.t \in {"chr", "not"}
            THEN \* a lazily starred character class: the shortest run first
                 LET stop == RunEnd(r.r, s, i)
                 IN  [n \in 1..(stop - i + 1) |-> [e |-> i + n - 1, c |-> c]]
            ELSE LET firsts == M(r.r, s, i, c)
                 IN  <<[e |-> i, c |-> c]>> \o BindStar(r, s, i, firsts, 1, Len(firsts))
      [] r.t = "opt" -> M(r.r, s, i, c) \o <<[e |-> i, c |-> c]>>
      [] r.t = "grp" ->
            LET inner == M(r.r, s, i, c)
            IN  [k \in 1..Len(inner) |->
                    [e |-> inner[k].e,
                     c |-> [inner[k].c EXCEPT ![r.n] = <<i, inner[k].e>>]]]
      [] r.t = "notahead" ->
            IF M(r.r, s, i, c) = <<>> THEN <<[e |-> i, c |-> c]>> ELSE <<>>
      [] r.t = "wb" ->
            IF IsWordAt(s, i - 1) # IsWordAt(s, i) THEN <<[e |-> i, c |-> c]>> ELSE <<>>
      [] r.t = "end" -> IF i = Len(s) + 1 THEN <<[e |-> i, c |-> c]>> ELSE <<>>
      [] r.t = "start" -> IF i = 1 THEN <<[e |-> i, c |-> c]>> ELSE <<>>

\* every way to continue each of the partial matches acc0[lo..hi] with r
Bind(r, s, acc0, lo, hi) ==
    IF lo > hi THEN <<>>
    ELSE IF lo = hi THEN M(r, s, acc0[lo].e, acc0[lo].c)
    ELSE LET mid == (lo + hi) \div 2
         IN  Bind(r, s, acc0, lo, mid) \o Bind(r, s, acc0, mid + 1, hi)

\* the parts ps[k..] in sequence after the partial matches acc0
MSeq(ps, k, s, acc0) ==
    IF k > Len(ps) \/ acc0 = <<>> THEN acc0
    ELSE MSeq(ps, k + 1, s, Bind(ps[k], s, acc0, 1, Len(acc0)))

MAlt(ps, k, s, i, c) ==
    IF k > Len(ps) THEN <<>>
    ELSE M(ps[k], s, i, c) \o MAlt(ps, k + 1, s, i, c)

\* the starred r once more after each non-empty first iteration firsts[lo..hi]
BindStar(r, s, i, firsts, lo, hi) ==
    IF lo > hi THEN <<>>
    ELSE IF lo = hi
    THEN (IF firsts[lo].e > i THEN M(r, s, firsts[lo].e, firsts[lo].c) ELSE <<>>)
    ELSE LET mid == (lo + hi) \div 2
         IN  BindStar(r, s, i, firsts, lo, mid) \o BindStar(r, s, i, firsts, mid + 1, hi)

NoMatch == [found |-> FALSE, s |-> 0, e |-> 0, c |-> NoCaps]

\* the match found at position i, ms the ways the pattern matches there
MatchAt(i, ms) == [found |-> TRUE, s |-> i, e |-> ms[1].e, c |-> ms[1].c]

\* the leftmost of the positions hits
Leftmost(hits) == CHOOSE x \in hits : \A y \in hits : x <= y

\* the match at the leftmost of the positions hits where r matches
ExecAmong(r, s, hits) ==
    IF hits = {} THEN NoMatch
    ELSE MatchAt(Leftmost(hits), M(r, s, Leftmost(hits), NoCaps))

\* RegExp.prototype.exec from lastIndex = from - 1: the leftmost match
Exec(r, s, from) ==
    ExecAmong(r, s, {i \in from..(Len(s) + 1) : M(r, s, i, NoCaps) # <<>>})

RECURSIVE MatchAllAfter(_, _, _)
\* the match m and the successive non-overlapping matches after it
MatchAllAfter(r, s, m) ==
    IF ~m.found THEN <<>>
    ELSE <<m>> \o MatchAllAfter(r, s, Exec(r, s, IF m.e > m.s THEN m.e ELSE m.e + 1))

\* [...s.matchAll(r)] for a global r
MatchAllFrom(r, s, from) == MatchAllAfter(r, s, Exec(r, s, from))

matchAll(r, s) == MatchAllFrom(r, s, 1)

\* match[n]: the text of capture group n (<<>> when the group is unset)
Group(s, m, n) == Sub(s, m.c[n][1], m.c[n][2])

\* whether capture group n took part in the match (match[n] !== undefined)
GroupSet(m, n) == m.c[n] # <<0, 0>>

\* match[0]: the matched text
Whole(s, m) == Sub(s, m.s, m.e)

----------------------------------------------------------------------------
(* Numbers: parseFloat and the formatting of a number inside a template     *)
(* string. A captured value is digits with an optional fraction; it is kept *)
(* as the exact decimal  n / 10^k, which is what the double arithmetic of   *)
(* the source prints for values of a few digits (a product by 8 only moves  *)
(* the exponent).                                                           *)

HoursPerPoint == 8

DigitValue ==
    ("0" :> 0) @@ ("1" :> 1) @@ ("2" :> 2) @@ ("3" :> 3) @@ ("4" :> 4) @@
    ("5" :> 5) @@ ("6" :> 6) @@ ("7" :> 7) @@ ("8" :> 8) @@ ("9" :> 9)

DigitChar == <<"0","1","2","3","4","5","6","7","8","9">>

RECURSIVE DigitsToNat(_)
DigitsToNat(ds) ==
    IF ds = <<>> THEN 0
    ELSE 10 * DigitsToNat(SubSeq(ds, 1, Len(ds) - 1)) + DigitValue[ds[Len(ds)]]

RECURSIVE NatToDigits(_)
NatToDigits(n) ==
    IF n < 10 THEN <<DigitChar[n + 1]>>
    ELSE Append(NatToDigits(n \div 10), DigitChar[(n % 10) + 1])

RECURSIVE Pow10(_)
Pow10(k) == IF k = 0 THEN 1 ELSE 10 * Pow10(k - 1)

\* parseFloat of a text matched by \d+(?:\.\d+)? : [n, k] stands for n / 10^k
parseFloat(v) ==
    LET dots == {i \in 1..Len(v) : v[i] = "."}
    IN  IF dots = {} THEN [n |-> DigitsToNat(v), k |-> 0]
        ELSE LET d == CHOOSE i \in dots : TRUE
             IN  [n |-> DigitsToNat(Sub(v, 1, d) \o Sub(v, d + 1, Len(v) + 1)),
                  k |-> Len(v) - d]

RECURSIVE StripZeros(_)
StripZeros(ds) ==
    IF ds # <<>> /\ ds[Len(ds)] = "0" THEN StripZeros(SubSeq(ds, 1, Len(ds) - 1)) ELSE ds

\* `${x}` for the number x = n / 10^k
NumberToString(x) ==
    LET whole == x.n \div Pow10(x.k)
        part == x.n % Pow10(x.k)
        pad == [j \in 1..(x.k - Len(NatToDigits(part))) |-> "0"]
        frac == IF x.k = 0 THEN <<>> ELSE StripZeros(pad \o NatToDigits(part))
    IN  IF frac = <<>> THEN NatToDigits(whole) ELSE NatToDigits(whole) \o <<".">> \o frac

\* the points reported as hours without the conversion
PointsUnconverted(x) == x

\* points * 8
TimesHoursPerPoint(x) == [n |-> x.n * HoursPerPoint, k |-> x.k]

----------------------------------------------------------------------------
(* DocumentAnalyzer: the field extractors *)

\* string | null
Null == [some |-> FALSE, v |-> <<>>]
Some(t) == [some |-> TRUE, v |-> t]

\* the truthiness of a string | null value
Truthy(x) == x.some /\ x.v # <<>>

estimationPatterns == <<
    \* /(?:story points?|sprint points?|sp|points?)[\s:]*(\d+(?:\.\d+)?)/gi
    Cat(<<Alt(<<Cat(<<Str(<<"s","t","o","r","y"," ","p","o","i","n","t">>), Opt(Chr({"s"}))>>), Cat(<<Str(<<"s","p","r","i","n","t"," ","p","o","i","n","t">>), Opt(Chr({"s"}))>>), Str(<<"s","p">>), Cat(<<Str(<<"p","o","i","n","t">>), Opt(Chr({"s"}))>>)>>), Star(Chr(WhiteSpace \cup {":"})), Grp(1, Cat(<<Plus(Chr(Digit)), Opt(Cat(<<Chr({"."}), Plus(Chr(Digit))>>))>>))>>),
    \* /(\d+(?:\.\d+)?)\s*(?:story points?|sprint points?|sp|points?)\b/gi
    Cat(<<Grp(1, Cat(<<Plus(Chr(Digit)), Opt(Cat(<<Chr({"."}), Plus(Chr(Digit))>>))>>)), Star(Chr(WhiteSpace)), Alt(<<Cat(<<Str(<<"s","t","o","r","y"," ","p","o","i","n","t">>), Opt(Chr({"s"}))>>), Cat(<<Str(<<"s","p","r","i","n","t"," ","p","o","i","n","t">>), Opt(Chr({"s"}))>>), Str(<<"s","p">>), Cat(<<Str(<<"p","o","i","n","t">>), Opt(Chr({"s"}))>>)>>), WordBoundary>>),
    \* /(?:estimate|estimation|time|duration|effort)[\s:]*(\d+(?:\.\d+)?)\s*(hours?|days?|weeks?|minutes?|hrs?)/gi
    Cat(<<Alt(<<Str(<<"e","s","t","i","m","a","t","e">>), Str(<<"e","s","t","i","m","a","t","i","o","n">>), Str(<<"t","i","m","e">>), Str(<<"d","u","r","a","t","i","o","n">>), Str(<<"e","f","f","o","r","t">>)>>), Star(Chr(WhiteSpace \cup {":"})), Grp(1, Cat(<<Plus(Chr(Digit)), Opt(Cat(<<Chr({"."}), Plus(Chr(Digit))>>))>>)), Star(Chr(WhiteSpace)), Grp(2, Alt(<<Cat(<<Str(<<"h","o","u","r">>), Opt(Chr({"s"}))>>), Cat(<<Str(<<"d","a","y">>), Opt(Chr({"s"}))>>), Cat(<<Str(<<"w","e","e","k">>), Opt(Chr({"s"}))>>), Cat(<<Str(<<"m","i","n","u","t","e">>), Opt(Chr({"s"}))>>), Cat(<<Str(<<"h","r">>), Opt(Chr({"s"}))>>)>>))>>),
    \* /(\d+(?:\.\d+)?)\s*(hours?|days?|weeks?|minutes?|hrs?)\s*(?:estimate|estimation|time|duration|effort)/gi
    Cat(<<Grp(1, Cat(<<Plus(Chr(Digit)), Opt(Cat(<<Chr({"."}), Plus(Chr(Digit))>>))>>)), Star(Chr(WhiteSpace)), Grp(2, Alt(<<Cat(<<Str(<<"h","o","u","r">>), Opt(Chr({"s"}))>>), Cat(<<Str(<<"d","a","y">>), Opt(Chr({"s"}))>>), Cat(<<Str(<<"w","e","e","k">>), Opt(Chr({"s"}))>>), Cat(<<Str(<<"m","i","n","u","t","e">>), Opt(Chr({"s"}))>>), Cat(<<Str(<<"h","r">>), Opt(Chr({"s"}))>>)>>)), Star(Chr(WhiteSpace)), Alt(<<Str(<<"e","s","t","i","m","a","t","e">>), Str(<<"e","s","t","i","m","a","t","i","o","n">>), Str(<<"t","i","m","e">>), Str(<<"d","u","r","a","t","i","o","n">>), Str(<<"e","f","f","o","r","t">>)>>)>>),
    \* /(?:takes?|require[ds]?|need[s]?)\s*(?:about|around|approximately)?\s*(\d+(?:\.\d+)?)\s*(hours?|days?|weeks?|minutes?|hrs?)/gi
    Cat(<<Alt(<<Cat(<<Str(<<"t","a","k","e">>), Opt(Chr({"s"}))>>), Cat(<<Str(<<"r","e","q","u","i","r","e">>), Opt(Chr({"d","s"}))>>), Cat(<<Str(<<"n","e","e","d">>), Opt(Chr({"s"}))>>)>>), Star(Chr(WhiteSpace)), Opt(Alt(<<Str(<<"a","b","o","u","t">>), Str(<<"a","r","o","u","n","d">>), Str(<<"a","p","p","r","o","x","i","m","a","t","e","l","y">>)>>)), Star(Chr(WhiteSpace)), Grp(1, Cat(<<Plus(Chr(Digit)), Opt(Cat(<<Chr({"."}), Plus(Chr(Digit))>>))>>)), Star(Chr(WhiteSpace)), Grp(2, Alt(<<Cat(<<Str(<<"h","o","u","r">>), Opt(Chr({"s"}))>>), Cat(<<Str(<<"d","a","y">>), Opt(Chr({"s"}))>>), Cat(<<Str(<<"w","e","e","k">>), Opt(Chr({"s"}))>>), Cat(<<Str(<<"m","i","n","u","t","e">>), Opt(Chr({"s"}))>>), Cat(<<Str(<<"h","r">>), Opt(Chr({"s"}))>>)>>))>>),
    \* /(\d+(?:\.\d+)?)\s*(story points?|sprint points?|sp|points?|hours?|hrs?|days?|weeks?)\b/gi
    Cat(<<Grp(1, Cat(<<Plus(Chr(Digit)), Opt(Cat(<<Chr({"."}), Plus(Chr(Digit))>>))>>)), Star(Chr(WhiteSpace)), Grp(2, Alt(<<Cat(<<Str(<<"s","t","o","r","y"," ","p","o","i","n","t">>), Opt(Chr({"s"}))>>), Cat(<<Str(<<"s","p","r","i","n","t"," ","p","o","i","n","t">>), Opt(Chr({"s"}))>>), Str(<<"s","p">>), Cat(<<Str(<<"p","o","i","n","t">>), Opt(Chr({"s"}))>>), Cat(<<Str(<<"h","o","u","r">>), Opt(Chr({"s"}))>>), Cat(<<Str(<<"h","r">>), Opt(Chr({"s"}))>>), Cat(<<Str(<<"d","a","y">>), Opt(Chr({"s"}))>>), Cat(<<Str(<<"w","e","e","k">>), Opt(Chr({"s"}))>>)>>)), WordBoundary>>)
>>

\* /\[(\d+(?:\.\d+)?)\s*(h|hr|hrs|hours?|d|days?|w|weeks?|sp|points?)\]/gi
titlePattern ==
    Cat(<<Chr({"["}), Grp(1, Cat(<<Plus(Chr(Digit)), Opt(Cat(<<Chr({"."}), Plus(Chr(Digit))>>))>>)), Star(Chr(WhiteSpace)), Grp(2, Alt(<<Chr({"h"}), Str(<<"h","r">>), Str(<<"h","r","s">>), Cat(<<Str(<<"h","o","u","r">>), Opt(Chr({"s"}))>>), Chr({"d"}), Cat(<<Str(<<"d","a","y">>), Opt(Chr({"s"}))>>), Chr({"w"}), Cat(<<Str(<<"w","e","e","k">>), Opt(Chr({"s"}))>>), Str(<<"s","p">>), Cat(<<Str(<<"p","o","i","n","t">>), Opt(Chr({"s"}))>>)>>)), Chr({"]"})>>)

\* /(\d+(?:\.\d+)?)/
titleValuePattern ==
    Grp(1, Cat(<<Plus(Chr(Digit)), Opt(Cat(<<Chr({"."}), Plus(Chr(Digit))>>))>>))

\* /(h|hr|hrs|hours?|d|days?|w|weeks?|sp|points?)/i
titleUnitPattern ==
    Grp(1, Alt(<<Chr({"h"}), Str(<<"h","r">>), Str(<<"h","r","s">>), Cat(<<Str(<<"h","o","u","r">>), Opt(Chr({"s"}))>>), Chr({"d"}), Cat(<<Str(<<"d","a","y">>), Opt(Chr({"s"}))>>), Chr({"w"}), Cat(<<Str(<<"w","e","e","k">>), Opt(Chr({"s"}))>>), Str(<<"s","p">>), Cat(<<Str(<<"p","o","i","n","t">>), Opt(Chr({"s"}))>>)>>))

\* /[\[\]]/g
bracketPattern ==
    Chr({"[","]"})

\* `${value} sprint points (${points * 8} hours)`
SprintPointsText(value) ==
    value \o <<" ","s","p","r","i","n","t"," ","p","o","i","n","t","s"," ","(">> \o NumberToString(TimesHoursPerPoint(parseFloat(value)))
          \o <<" ","h","o","u","r","s",")">>

\* unit.toLowerCase().includes('point') || unit.toLowerCase() === 'sp'
IsPointUnit(unit) ==
    includes(toLowerCase(unit), <<"p","o","i","n","t">>) \/ toLowerCase(unit) = <<"s","p">>

\* s.replace(r, '') for a global r that matches single characters
RemoveAll(s, r) == SelectSeq(s, LAMBDA ch : M(r, <<ch>>, 1, NoCaps) = <<>>)

\* the result of matches[0] of one content pattern
EstimationOfMatch(content, m) ==
    LET value == Group(content, m, 1)
        unit == IF GroupSet(m, 2) /\ Group(content, m, 2) # <<>>
                THEN Group(content, m, 2) ELSE <<"p","o","i","n","t","s">>
    IN  IF IsPointUnit(unit) THEN SprintPointsText(value)
        ELSE value \o <<" ">> \o unit

\* the tag returned with its brackets
EstimationOfTitleBracketed(name) ==
    IF Exec(titlePattern, name, 1).found
    THEN Some(Whole(name, Exec(titlePattern, name, 1)))
    ELSE Null

\* the title fallback of extractEstimation
EstimationOfTitle(name) ==
    LET tm == Exec(titlePattern, name, 1)
    IN  IF ~tm.found THEN Null
        ELSE LET t0 == Whole(name, tm)
                 valueMatch == Exec(titleValuePattern, t0, 1)
                 unitMatch == Exec(titleUnitPattern, toLowerCase(t0), 1)
             IN  IF /\ valueMatch.found
                    /\ unitMatch.found
                    /\ IsPointUnit(Group(t0, unitMatch, 1))
                 THEN Some(SprintPointsText(Group(t0, valueMatch, 1)))
                 ELSE Some(RemoveAll(t0, bracketPattern))

RECURSIVE FirstEstimation(_, _, _)
\* the loop over estimationPatterns from pattern k on
FirstEstimation(content, name, k) ==
    IF k > Len(estimationPatterns) THEN EstimationOfTitle(name)
    ELSE LET m == Exec(estimationPatterns[k], content, 1)
         IN  IF m.found THEN Some(EstimationOfMatch(content, m))
             ELSE FirstEstimation(content, name, k + 1)

\* the generic number + unit pattern tried before the others
extractEstimationGenericFirst(content, name) ==
    IF Exec(estimationPatterns[Len(estimationPatterns)], content, 1).found
    THEN FirstEstimation(content, name, Len(estimationPatterns))
    ELSE FirstEstimation(content, name, 1)

extractEstimation(content, name) == FirstEstimation(content, name, 1)

sprintPatterns == <<
    \* /(?:story points?|sprint points?|sp|points?)[\s:]*(\d+(?:\.\d+)?)/gi
    Cat(<<Alt(<<Cat(<<Str(<<"s","t","o","r","y"," ","p","o","i","n","t">>), Opt(Chr({"s"}))>>), Cat(<<Str(<<"s","p","r","i","n","t"," ","p","o","i","n","t">>), Opt(Chr({"s"}))>>), Str(<<"s","p">>), Cat(<<Str(<<"p","o","i","n","t">>), Opt(Chr({"s"}))>>)>>), Star(Chr(WhiteSpace \cup {":"})), Grp(1, Cat(<<Plus(Chr(Digit)), Opt(Cat(<<Chr({"."}), Plus(Chr(Digit))>>))>>))>>),
    \* /(\d+(?:\.\d+)?)\s*(?:story points?|sprint points?|sp|points?)\b/gi
    Cat(<<Grp(1, Cat(<<Plus(Chr(Digit)), Opt(Cat(<<Chr({"."}), Plus(Chr(Digit))>>))>>)), Star(Chr(WhiteSpace)), Alt(<<Cat(<<Str(<<"s","t","o","r","y"," ","p","o","i","n","t">>), Opt(Chr({"s"}))>>), Cat(<<Str(<<"s","p","r","i","n","t"," ","p","o","i","n","t">>), Opt(Chr({"s"}))>>), Str(<<"s","p">>), Cat(<<Str(<<"p","o","i","n","t">>), Opt(Chr({"s"}))>>)>>), WordBoundary>>)
>>

hourPatterns == <<
    \* /(\d+(?:\.\d+)?)\s*hours?/gi
    Cat(<<Grp(1, Cat(<<Plus(Chr(Digit)), Opt(Cat(<<Chr({"."}), Plus(Chr(Digit))>>))>>)), Star(Chr(WhiteSpace)), Str(<<"h","o","u","r">>), Opt(Chr({"s"}))>>),
    \* /(\d+(?:\.\d+)?)\s*hrs?/gi
    Cat(<<Grp(1, Cat(<<Plus(Chr(Digit)), Opt(Cat(<<Chr({"."}), Plus(Chr(Digit))>>))>>)), Star(Chr(WhiteSpace)), Str(<<"h","r">>), Opt(Chr({"s"}))>>),
    \* /(\d+(?:\.\d+)?)\s*h\b/gi
    Cat(<<Grp(1, Cat(<<Plus(Chr(Digit)), Opt(Cat(<<Chr({"."}), Plus(Chr(Digit))>>))>>)), Star(Chr(WhiteSpace)), Chr({"h"}), WordBoundary>>),
    \* /hours?[\s:]*(\d+(?:\.\d+)?)/gi
    Cat(<<Str(<<"h","o","u","r">>), Opt(Chr({"s"})), Star(Chr(WhiteSpace \cup {":"})), Grp(1, Cat(<<Plus(Chr(Digit)), Opt(Cat(<<Chr({"."}), Plus(Chr(Digit))>>))>>))>>),
    \* /duration[\s:]*(\d+(?:\.\d+)?)\s*hours?/gi
    Cat(<<Str(<<"d","u","r","a","t","i","o","n">>), Star(Chr(WhiteSpace \cup {":"})), Grp(1, Cat(<<Plus(Chr(Digit)), Opt(Cat(<<Chr({"."}), Plus(Chr(Digit))>>))>>)), Star(Chr(WhiteSpace)), Str(<<"h","o","u","r">>), Opt(Chr({"s"}))>>)
>>

RECURSIVE FirstHours(_, _)
\* the loop over hourPatterns from pattern k on
FirstHours(content, k) ==
    IF k > Len(hourPatterns) THEN Null
    ELSE LET m == Exec(hourPatterns[k], content, 1)
         IN  IF m.found THEN Some(Group(content, m, 1) \o <<" ","h","o","u","r","s">>)
             ELSE FirstHours(content, k + 1)

RECURSIVE FirstSprintHours(_, _)
\* the loop over sprintPatterns from pattern k on, then the hour patterns
FirstSprintHours(content, k) ==
    IF k > Len(sprintPatterns) THEN FirstHours(content, 1)
    ELSE LET m == Exec(sprintPatterns[k], content, 1)
         IN  IF m.found
             THEN LET points == parseFloat(Group(content, m, 1))
                  IN  Some(NumberToString(TimesHoursPerPoint(points)) \o <<" ","h","o","u","r","s"," ","(">>
                           \o NumberToString(points) \o <<" ","s","p","r","i","n","t"," ","p","o","i","n","t","s",")">>)
             ELSE FirstSprintHours(content, k + 1)

\* the patterns run on the content and the title
extractHoursOfTitleToo(content, name) == FirstSprintHours(content \o <<" ">> \o name, 1)

\* the hour patterns tried before the sprint patterns
extractHoursBeforePoints(content, name) ==
    IF FirstHours(content, 1).some THEN FirstHours(content, 1)
    ELSE FirstSprintHours(content, 1)

extractHours(content, name) == FirstSprintHours(content, 1)

descriptionPatterns == <<
    \* /(?:description|summary|overview)[\s\n]*[:]\s*([^\n]+(?:\n(?!#+|\*|\d+\.)[^\n]+)*)/gi
    Cat(<<Alt(<<Str(<<"d","e","s","c","r","i","p","t","i","o","n">>), Str(<<"s","u","m","m","a","r","y">>), Str(<<"o","v","e","r","v","i","e","w">>)>>), Star(Chr(WhiteSpace \cup {"\n"})), Chr({":"}), Star(Chr(WhiteSpace)), Grp(1, Cat(<<Plus(Not({"\n"})), Star(Cat(<<Chr({"\n"}), NotAhead(Alt(<<Plus(Chr({"#"})), Chr({"*"}), Cat(<<Plus(Chr(Digit)), Chr({"."})>>)>>)), Plus(Not({"\n"}))>>))>>))>>),
    \* /(?:what|purpose|goal)[\s\n]*[:]\s*([^\n]+(?:\n(?!#+|\*|\d+\.)[^\n]+)*)/gi
    Cat(<<Alt(<<Str(<<"w","h","a","t">>), Str(<<"p","u","r","p","o","s","e">>), Str(<<"g","o","a","l">>)>>), Star(Chr(WhiteSpace \cup {"\n"})), Chr({":"}), Star(Chr(WhiteSpace)), Grp(1, Cat(<<Plus(Not({"\n"})), Star(Cat(<<Chr({"\n"}), NotAhead(Alt(<<Plus(Chr({"#"})), Chr({"*"}), Cat(<<Plus(Chr(Digit)), Chr({"."})>>)>>)), Plus(Not({"\n"}))>>))>>))>>)
>>

\* /^\d+\./
numberedLinePattern ==
    Cat(<<StartOfInput, Plus(Chr(Digit)), Chr({"."})>>)

RECURSIVE SplitLines(_)
\* s.split('\n')
SplitLines(s) ==
    LET breaks == {i \in 1..Len(s) : s[i] = "\n"}
    IN  IF breaks = {} THEN <<s>>
        ELSE LET b == CHOOSE x \in breaks : \A y \in breaks : x <= y
             IN  <<Sub(s, 1, b)>> \o SplitLines(Sub(s, b + 1, Len(s) + 1))

DescriptionLineMinLength == 20

\* the predicate with a line of 20 characters accepted
IsContentLineFromMinLength(line) ==
    /\ ~startsWith(line, <<"#">>)
    /\ ~startsWith(line, <<"*">>)
    /\ ~startsWith(line, <<"-">>)
    /\ M(numberedLinePattern, line, 1, NoCaps) = <<>>
    /\ Len(line) >= DescriptionLineMinLength

\* the predicate of lines.find in extractDescription
IsContentLine(line) ==
    /\ ~startsWith(line, <<"#">>)
    /\ ~startsWith(line, <<"*">>)
    /\ ~startsWith(line, <<"-">>)
    /\ M(numberedLinePattern, line, 1, NoCaps) = <<>>
    /\ Len(line) > DescriptionLineMinLength

RECURSIVE FirstContentLine(_, _)
\* lines.find(...) || doc.name
FirstContentLine(lines, name) ==
    IF lines = <<>> THEN name
    ELSE IF IsContentLine(Head(lines)) THEN Head(lines)
    ELSE FirstContentLine(Tail(lines), name)

RECURSIVE FirstDescription(_, _, _)
\* the loop over descriptionPatterns: content.match(pattern) with a global
\* pattern is the list of the matched texts, so match[1] is the second match
FirstDescription(content, name, k) ==
    IF k > Len(descriptionPatterns)
    THEN FirstContentLine(SelectNonBlank(SplitLines(content)), name)
    ELSE LET ms == matchAll(descriptionPatterns[k], toLowerCase(content))
         IN  IF Len(ms) >= 2 THEN trim(Whole(content, ms[2]))
             ELSE FirstDescription(content, name, k + 1)

extractDescription(d) == FirstDescription(d.content, d.name, 1)

requirementPatterns == <<
    \* /(?:requirements?|prerequisite[s]?|dependencies|needed)[\s\n]*[:]\s*([^\n]+(?:\n[-*]\s*[^\n]+)*)/gi
    Cat(<<Alt(<<Cat(<<Str(<<"r","e","q","u","i","r","e","m","e","n","t">>), Opt(Chr({"s"}))>>), Cat(<<Str(<<"p","r","e","r","e","q","u","i","s","i","t","e">>), Opt(Chr({"s"}))>>), Str(<<"d","e","p","e","n","d","e","n","c","i","e","s">>), Str(<<"n","e","e","d","e","d">>)>>), Star(Chr(WhiteSpace \cup {"\n"})), Chr({":"}), Star(Chr(WhiteSpace)), Grp(1, Cat(<<Plus(Not({"\n"})), Star(Cat(<<Chr({"\n"}), Chr({"-","*"}), Star(Chr(WhiteSpace)), Plus(Not({"\n"}))>>))>>))>>),
    \* /(?:must have|required|necessary)[\s\n]*[:]\s*([^\n]+(?:\n[-*]\s*[^\n]+)*)/gi
    Cat(<<Alt(<<Str(<<"m","u","s","t"," ","h","a","v","e">>), Str(<<"r","e","q","u","i","r","e","d">>), Str(<<"n","e","c","e","s","s","a","r","y">>)>>), Star(Chr(WhiteSpace \cup {"\n"})), Chr({":"}), Star(Chr(WhiteSpace)), Grp(1, Cat(<<Plus(Not({"\n"})), Star(Cat(<<Chr({"\n"}), Chr({"-","*"}), Star(Chr(WhiteSpace)), Plus(Not({"\n"}))>>))>>))>>),
    \* /(?:before starting|pre-req[s]?|setup)[\s\n]*[:]\s*([^\n]+(?:\n[-*]\s*[^\n]+)*)/gi
    Cat(<<Alt(<<Str(<<"b","e","f","o","r","e"," ","s","t","a","r","t","i","n","g">>), Cat(<<Str(<<"p","r","e","-","r","e","q">>), Opt(Chr({"s"}))>>), Str(<<"s","e","t","u","p">>)>>), Star(Chr(WhiteSpace \cup {"\n"})), Chr({":"}), Star(Chr(WhiteSpace)), Grp(1, Cat(<<Plus(Not({"\n"})), Star(Cat(<<Chr({"\n"}), Chr({"-","*"}), Star(Chr(WhiteSpace)), Plus(Not({"\n"}))>>))>>))>>)
>>

\* /\n[-*]\s*|\n\d+\.\s*/
itemSeparator ==
    Alt(<<Cat(<<Chr({"\n"}), Chr({"-","*"}), Star(Chr(WhiteSpace))>>), Cat(<<Chr({"\n"}), Plus(Chr(Digit)), Chr({"."}), Star(Chr(WhiteSpace))>>)>>)

\* /[-*]\s+([^\n]+)/g
bulletPattern ==
    Cat(<<Chr({"-","*"}), Plus(Chr(WhiteSpace)), Grp(1, Plus(Not({"\n"})))>>)

\* /[-*]\s+/
bulletMarker ==
    Cat(<<Chr({"-","*"}), Plus(Chr(WhiteSpace))>>)

RECURSIVE SplitBy(_, _, _)
\* the pieces of a non-empty s from position p on, split by r (r has no
\* capture groups); a separator is a match that does not end at p
SplitBy(s, r, p) ==
    LET seps == {q \in p..Len(s) : LET ms == M(r, s, q, NoCaps)
                                   IN  ms # <<>> /\ ms[1].e # p}
    IN  IF seps = {} THEN <<Sub(s, p, Len(s) + 1)>>
        ELSE LET q == CHOOSE x \in seps : \A y \in seps : x <= y
                 e == M(r, s, q, NoCaps)[1].e
             IN  <<Sub(s, p, q)>> \o SplitBy(s, r, e)

\* String.prototype.split with a regular expression
split(s, r) ==
    IF s = <<>> THEN (IF M(r, s, 1, NoCaps) # <<>> THEN <<>> ELSE <<s>>)
    ELSE SplitBy(s, r, 1)

\* items.map(item => item.trim())
TrimEach(xs) == [k \in 1..Len(xs) |-> trim(xs[k])]

\* the items one labelled section contributes: split, drop blanks, trim
SectionItems(content, m) ==
    TrimEach(SelectNonBlank(split(trim(Group(content, m, 1)), itemSeparator)))

RECURSIVE ItemsOfMatches(_, _)
ItemsOfMatches(content, ms) ==
    IF ms = <<>> THEN <<>>
    ELSE (IF Group(content, Head(ms), 1) # <<>> THEN SectionItems(content, Head(ms)) ELSE <<>>)
         \o ItemsOfMatches(content, Tail(ms))

RECURSIVE ItemsOfPatterns(_, _, _)
\* the loop over a list of labelled-section patterns from pattern k on
ItemsOfPatterns(content, patterns, k) ==
    IF k > Len(patterns) THEN <<>>
    ELSE ItemsOfMatches(content, matchAll(patterns[k], content))
         \o ItemsOfPatterns(content, patterns, k + 1)

contextWords ==
    <<<<"a","c","c","e","s","s">>,
     <<"p","e","r","m","i","s","s","i","o","n">>,
     <<"i","n","s","t","a","l","l">>,
     <<"c","o","n","f","i","g","u","r","e">>,
     <<"s","e","t","u","p">>,
     <<"a","c","c","o","u","n","t">>,
     <<"c","r","e","d","e","n","t","i","a","l">>>>

\* bullet.replace(/[-*]\s+/, '').trim()
BulletText(bullet) ==
    LET m == Exec(bulletMarker, bullet, 1)
    IN  trim(IF m.found THEN Sub(bullet, 1, m.s) \o Sub(bullet, m.e, Len(bullet) + 1)
             ELSE bullet)

RECURSIVE ContextBullets(_, _)
\* the bullet lines that mention a context word
ContextBullets(content, ms) ==
    IF ms = <<>> THEN <<>>
    ELSE LET text == BulletText(Whole(content, Head(ms)))
         IN  (IF \E k \in 1..Len(contextWords) : includes(toLowerCase(text), contextWords[k])
              THEN <<text>> ELSE <<>>)
             \o ContextBullets(content, Tail(ms))

extractRequirements(content) ==
    Dedup(ItemsOfPatterns(content, requirementPatterns, 1)
          \o ContextBullets(content, matchAll(bulletPattern, content)))

prerequisitePatterns == <<
    \* /prerequisite[s]?[\s\n]*[:]\s*([^\n]+(?:\n[-*]\s*[^\n]+)*)/gi
    Cat(<<Str(<<"p","r","e","r","e","q","u","i","s","i","t","e">>), Opt(Chr({"s"})), Star(Chr(WhiteSpace \cup {"\n"})), Chr({":"}), Star(Chr(WhiteSpace)), Grp(1, Cat(<<Plus(Not({"\n"})), Star(Cat(<<Chr({"\n"}), Chr({"-","*"}), Star(Chr(WhiteSpace)), Plus(Not({"\n"}))>>))>>))>>),
    \* /before\s+starting[\s\n]*[:]\s*([^\n]+(?:\n[-*]\s*[^\n]+)*)/gi
    Cat(<<Str(<<"b","e","f","o","r","e">>), Plus(Chr(WhiteSpace)), Str(<<"s","t","a","r","t","i","n","g">>), Star(Chr(WhiteSpace \cup {"\n"})), Chr({":"}), Star(Chr(WhiteSpace)), Grp(1, Cat(<<Plus(Not({"\n"})), Star(Cat(<<Chr({"\n"}), Chr({"-","*"}), Star(Chr(WhiteSpace)), Plus(Not({"\n"}))>>))>>))>>),
    \* /dependencies[\s\n]*[:]\s*([^\n]+(?:\n[-*]\s*[^\n]+)*)/gi
    Cat(<<Str(<<"d","e","p","e","n","d","e","n","c","i","e","s">>), Star(Chr(WhiteSpace \cup {"\n"})), Chr({":"}), Star(Chr(WhiteSpace)), Grp(1, Cat(<<Plus(Not({"\n"})), Star(Cat(<<Chr({"\n"}), Chr({"-","*"}), Star(Chr(WhiteSpace)), Plus(Not({"\n"}))>>))>>))>>),
    \* /requires?[\s\n]*[:]\s*([^\n]+(?:\n[-*]\s*[^\n]+)*)/gi
    Cat(<<Str(<<"r","e","q","u","i","r","e">>), Opt(Chr({"s"})), Star(Chr(WhiteSpace \cup {"\n"})), Chr({":"}), Star(Chr(WhiteSpace)), Grp(1, Cat(<<Plus(Not({"\n"})), Star(Cat(<<Chr({"\n"}), Chr({"-","*"}), Star(Chr(WhiteSpace)), Plus(Not({"\n"}))>>))>>))>>),
    \* /must\s+have[\s\n]*[:]\s*([^\n]+(?:\n[-*]\s*[^\n]+)*)/gi
    Cat(<<Str(<<"m","u","s","t">>), Plus(Chr(WhiteSpace)), Str(<<"h","a","v","e">>), Star(Chr(WhiteSpace \cup {"\n"})), Chr({":"}), Star(Chr(WhiteSpace)), Grp(1, Cat(<<Plus(Not({"\n"})), Star(Cat(<<Chr({"\n"}), Chr({"-","*"}), Star(Chr(WhiteSpace)), Plus(Not({"\n"}))>>))>>))>>)
>>

extractPrerequisites(content) == Dedup(ItemsOfPatterns(content, prerequisitePatterns, 1))

tagPatterns == <<
    \* /(?:tags?|categories|labels?)[\s:]*([^\n]+)/gi
    Cat(<<Alt(<<Cat(<<Str(<<"t","a","g">>), Opt(Chr({"s"}))>>), Str(<<"c","a","t","e","g","o","r","i","e","s">>), Cat(<<Str(<<"l","a","b","e","l">>), Opt(Chr({"s"}))>>)>>), Star(Chr(WhiteSpace \cup {":"})), Grp(1, Plus(Not({"\n"})))>>),
    \* /#(\w+)/g
    Cat(<<Chr({"#"}), Grp(1, Plus(Chr(WordChar)))>>)
>>

\* /[,\s]+/
tagSeparator ==
    Plus(Chr(WhiteSpace \cup {","}))

\* .filter(tag => tag.length > 1)
SelectLongerThanOne(xs) == SelectSeq(xs, LAMBDA x : Len(x) > 1)

RECURSIVE TagsOfMatches(_, _)
TagsOfMatches(content, ms) ==
    IF ms = <<>> THEN <<>>
    ELSE LET tagText == trim(Group(content, Head(ms), 1))
         IN  (IF Group(content, Head(ms), 1) # <<>>
              THEN SelectLongerThanOne(split(tagText, tagSeparator))
              ELSE <<>>)
             \o TagsOfMatches(content, Tail(ms))

RECURSIVE ExplicitTags(_, _)
ExplicitTags(content, k) ==
    IF k > Len(tagPatterns) THEN <<>>
    ELSE TagsOfMatches(content, matchAll(tagPatterns[k], content))
         \o ExplicitTags(content, k + 1)

\* the keyword dictionary of extractTags, in its declaration order
keywords == <<
    [tag |-> <<"a","p","i">>,
     words |-> <<<<"a","p","i">>,
     <<"e","n","d","p","o","i","n","t">>,
     <<"r","e","s","t">>,
     <<"g","r","a","p","h","q","l">>,
     <<"w","e","b","h","o","o","k">>>>],
    [tag |-> <<"d","a","t","a","b","a","s","e">>,
     words |-> <<<<"d","a","t","a","b","a","s","e">>,
     <<"s","q","l">>,
     <<"n","o","s","q","l">>,
     <<"m","o","n","g","o","d","b">>,
     <<"p","o","s","t","g","r","e","s">>,
     <<"m","y","s","q","l">>>>],
    [tag |-> <<"d","e","p","l","o","y","m","e","n","t">>,
     words |-> <<<<"d","e","p","l","o","y">>,
     <<"d","e","p","l","o","y","m","e","n","t">>,
     <<"c","i","/","c","d">>,
     <<"d","o","c","k","e","r">>,
     <<"k","u","b","e","r","n","e","t","e","s">>>>],
    [tag |-> <<"s","e","c","u","r","i","t","y">>,
     words |-> <<<<"s","e","c","u","r","i","t","y">>,
     <<"a","u","t","h">>,
     <<"a","u","t","h","e","n","t","i","c","a","t","i","o","n">>,
     <<"a","u","t","h","o","r","i","z","a","t","i","o","n">>,
     <<"s","s","l">>,
     <<"t","l","s">>>>],
    [tag |-> <<"m","o","n","i","t","o","r","i","n","g">>,
     words |-> <<<<"m","o","n","i","t","o","r">>,
     <<"l","o","g","g","i","n","g">>,
     <<"m","e","t","r","i","c","s">>,
     <<"a","l","e","r","t","i","n","g">>,
     <<"o","b","s","e","r","v","a","b","i","l","i","t","y">>>>],
    [tag |-> <<"t","e","s","t","i","n","g">>,
     words |-> <<<<"t","e","s","t">>,
     <<"t","e","s","t","i","n","g">>,
     <<"u","n","i","t"," ","t","e","s","t">>,
     <<"i","n","t","e","g","r","a","t","i","o","n"," ","t","e","s","t">>,
     <<"q","a">>>>],
    [tag |-> <<"d","o","c","u","m","e","n","t","a","t","i","o","n">>,
     words |-> <<<<"d","o","c","u","m","e","n","t">>,
     <<"d","o","c","u","m","e","n","t","a","t","i","o","n">>,
     <<"r","e","a","d","m","e">>,
     <<"g","u","i","d","e">>,
     <<"m","a","n","u","a","l">>>>],
    [tag |-> <<"m","a","i","n","t","e","n","a","n","c","e">>,
     words |-> <<<<"m","a","i","n","t","e","n","a","n","c","e">>,
     <<"u","p","d","a","t","e">>,
     <<"p","a","t","c","h">>,
     <<"u","p","g","r","a","d","e">>,
     <<"m","i","g","r","a","t","i","o","n">>>>]
>>

RECURSIVE InferredTags(_, _)
InferredTags(combinedText, k) ==
    IF k > Len(keywords) THEN <<>>
    ELSE (IF \E j \in 1..Len(keywords[k].words) : includes(combinedText, keywords[k].words[j])
          THEN <<keywords[k].tag>> ELSE <<>>)
         \o InferredTags(combinedText, k + 1)

extractTags(content, name) ==
    Dedup(ExplicitTags(content, 1)
          \o InferredTags(toLowerCase(content \o <<" ">> \o name), 1))

\* complexityIndicators
highIndicators ==
    <<<<"i","n","t","e","g","r","a","t","i","o","n">>,
     <<"a","r","c","h","i","t","e","c","t","u","r","e">>,
     <<"m","i","g","r","a","t","i","o","n">>,
     <<"r","e","f","a","c","t","o","r">>,
     <<"c","o","m","p","l","e","x">>,
     <<"m","u","l","t","i","p","l","e"," ","s","y","s","t","e","m","s">>,
     <<"d","i","s","t","r","i","b","u","t","e","d">>,
     <<"m","i","c","r","o","s","e","r","v","i","c","e","s">>,
     <<"s","c","a","l","a","b","i","l","i","t","y">>>>

mediumIndicators ==
    <<<<"c","o","n","f","i","g","u","r","a","t","i","o","n">>,
     <<"s","e","t","u","p">>,
     <<"i","m","p","l","e","m","e","n","t","a","t","i","o","n">>,
     <<"d","e","v","e","l","o","p","m","e","n","t">>,
     <<"m","u","l","t","i","p","l","e"," ","s","t","e","p","s">>,
     <<"d","e","p","e","n","d","e","n","c","i","e","s">>,
     <<"c","o","o","r","d","i","n","a","t","i","o","n">>>>

lowIndicators ==
    <<<<"s","i","m","p","l","e">>,
     <<"b","a","s","i","c">>,
     <<"q","u","i","c","k">>,
     <<"s","t","r","a","i","g","h","t","f","o","r","w","a","r","d">>,
     <<"s","i","n","g","l","e"," ","s","t","e","p">>,
     <<"d","o","c","u","m","e","n","t","a","t","i","o","n">>,
     <<"r","e","v","i","e","w">>,
     <<"m","i","n","o","r"," ","c","h","a","n","g","e">>>>

RECURSIVE IndicatorScore(_, _, _)
\* indicators.reduce((count, indicator) => count + (lowerContent.split(indicator).length - 1), 0)
IndicatorScore(lowerContent, indicators, k) ==
    IF k > Len(indicators) THEN 0
    ELSE SplitCount(lowerContent, indicators[k]) + IndicatorScore(lowerContent, indicators, k + 1)

HighLengthThreshold == 2000
MediumLengthThreshold == 500

\* the length bonus given to high and medium only
ComplexityScoresWithoutLowBonus(content) ==
    LET lowerContent == toLowerCase(content)
        contentLength == Len(content)
    IN  [high |-> IndicatorScore(lowerContent, highIndicators, 1)
                  + (IF contentLength > HighLengthThreshold THEN 1 ELSE 0),
         medium |-> IndicatorScore(lowerContent, mediumIndicators, 1)
                  + (IF contentLength <= HighLengthThreshold /\ contentLength > MediumLengthThreshold
                     THEN 1 ELSE 0),
         low |-> IndicatorScore(lowerContent, lowIndicators, 1)]

\* the length bonus given to every bucket whose threshold the length exceeds
ComplexityScoresCumulative(content) ==
    LET lowerContent == toLowerCase(content)
        contentLength == Len(content)
    IN  [high |-> IndicatorScore(lowerContent, highIndicators, 1)
                  + (IF contentLength > HighLengthThreshold THEN 1 ELSE 0),
         medium |-> IndicatorScore(lowerContent, mediumIndicators, 1)
                  + (IF contentLength > MediumLengthThreshold THEN 1 ELSE 0),
         low |-> IndicatorScore(lowerContent, lowIndicators, 1) + 1]

\* the three scores after the length bonus
ComplexityScores(content) ==
    LET lowerContent == toLowerCase(content)
        contentLength == Len(content)
    IN  [high |-> IndicatorScore(lowerContent, highIndicators, 1)
                  + (IF contentLength > HighLengthThreshold THEN 1 ELSE 0),
         medium |-> IndicatorScore(lowerContent, mediumIndicators, 1)
                  + (IF contentLength <= HighLengthThreshold /\ contentLength > MediumLengthThreshold
                     THEN 1 ELSE 0),
         low |-> IndicatorScore(lowerContent, lowIndicators, 1)
                  + (IF contentLength <= MediumLengthThreshold THEN 1 ELSE 0)]

\* the comparisons taken as non-strict, so that a tie goes to the higher bucket
PickComplexityTiesUp(sc) ==
    IF sc.high >= sc.medium /\ sc.high >= sc.low THEN "high"
    ELSE IF sc.medium >= sc.low THEN "medium"
    ELSE IF sc.low > 0 THEN "low"
    ELSE "unknown"

\* the comparison chain that ends assessComplexity
PickComplexity(sc) ==
    IF sc.high > sc.medium /\ sc.high > sc.low THEN "high"
    ELSE IF sc.medium > sc.low THEN "medium"
    ELSE IF sc.low > 0 THEN "low"
    ELSE "unknown"

assessComplexity(content) == PickComplexity(ComplexityScores(content))

timingPatterns == <<
    \* /(?:timing|timeline|timeframe)[\s:]*([^\n]+)/gi
    Cat(<<Alt(<<Str(<<"t","i","m","i","n","g">>), Str(<<"t","i","m","e","l","i","n","e">>), Str(<<"t","i","m","e","f","r","a","m","e">>)>>), Star(Chr(WhiteSpace \cup {":"})), Grp(1, Plus(Not({"\n"})))>>),
    \* /(?:takes?|requires?)\s*(?:about|around|approximately)?\s*([^\n]+?(?:hours?|days?|weeks?|months?))/gi
    Cat(<<Alt(<<Cat(<<Str(<<"t","a","k","e">>), Opt(Chr({"s"}))>>), Cat(<<Str(<<"r","e","q","u","i","r","e">>), Opt(Chr({"s"}))>>)>>), Star(Chr(WhiteSpace)), Opt(Alt(<<Str(<<"a","b","o","u","t">>), Str(<<"a","r","o","u","n","d">>), Str(<<"a","p","p","r","o","x","i","m","a","t","e","l","y">>)>>)), Star(Chr(WhiteSpace)), Grp(1, Cat(<<LazyPlus(Not({"\n"})), Alt(<<Cat(<<Str(<<"h","o","u","r">>), Opt(Chr({"s"}))>>), Cat(<<Str(<<"d","a","y">>), Opt(Chr({"s"}))>>), Cat(<<Str(<<"w","e","e","k">>), Opt(Chr({"s"}))>>), Cat(<<Str(<<"m","o","n","t","h">>), Opt(Chr({"s"}))>>)>>)>>))>>),
    \* /completion\s*time[\s:]*([^\n]+)/gi
    Cat(<<Str(<<"c","o","m","p","l","e","t","i","o","n">>), Star(Chr(WhiteSpace)), Str(<<"t","i","m","e">>), Star(Chr(WhiteSpace \cup {":"})), Grp(1, Plus(Not({"\n"})))>>),
    \* /duration[\s:]*([^\n]+)/gi
    Cat(<<Str(<<"d","u","r","a","t","i","o","n">>), Star(Chr(WhiteSpace \cup {":"})), Grp(1, Plus(Not({"\n"})))>>),
    \* /implementation\s*takes?[\s:]*([^\n]+)/gi
    Cat(<<Str(<<"i","m","p","l","e","m","e","n","t","a","t","i","o","n">>), Star(Chr(WhiteSpace)), Str(<<"t","a","k","e">>), Opt(Chr({"s"})), Star(Chr(WhiteSpace \cup {":"})), Grp(1, Plus(Not({"\n"})))>>),
    \* /how\s*long[\s:]*(.*?)(?:\n|$)/gi
    Cat(<<Str(<<"h","o","w">>), Star(Chr(WhiteSpace)), Str(<<"l","o","n","g">>), Star(Chr(WhiteSpace \cup {":"})), Grp(1, LazyStar(Not({"\n"}))), Alt(<<Chr({"\n"}), EndOfInput>>)>>)
>>

\* /^does\s+the\s+playbook\s+implementation\s+take\??\s*/i
timingBoilerplate ==
    Cat(<<StartOfInput, Str(<<"d","o","e","s">>), Plus(Chr(WhiteSpace)), Str(<<"t","h","e">>), Plus(Chr(WhiteSpace)), Str(<<"p","l","a","y","b","o","o","k">>), Plus(Chr(WhiteSpace)), Str(<<"i","m","p","l","e","m","e","n","t","a","t","i","o","n">>), Plus(Chr(WhiteSpace)), Str(<<"t","a","k","e">>), Opt(Chr({"?"})), Star(Chr(WhiteSpace))>>)

\* timing.replace(/^does\s+the\s+playbook\s+implementation\s+take\??\s*/i, '')
StripBoilerplate(timing) ==
    LET ms == M(timingBoilerplate, toLowerCase(timing), 1, NoCaps)
    IN  IF ms = <<>> THEN timing ELSE Sub(timing, ms[1].e, Len(timing) + 1)

RECURSIVE FirstTiming(_, _)
\* the loop over timingPatterns from pattern k on
FirstTiming(content, k) ==
    IF k > Len(timingPatterns) THEN Null
    ELSE LET m == Exec(timingPatterns[k], content, 1)
             timing == StripBoilerplate(trim(Group(content, m, 1)))
         IN  IF m.found /\ Group(content, m, 1) # <<>> /\ timing # <<>> THEN Some(timing)
             ELSE FirstTiming(content, k + 1)

extractTiming(content) == FirstTiming(content, 1)

analyzeDocument(d) ==
    LET content == toLowerCase(d.content)
        name == toLowerCase(d.name)
    IN  [estimation |-> extractEstimation(content, name),
         description |-> extractDescription(d),
         requirements |-> extractRequirements(content),
         tags |-> extractTags(content, name),
         complexity |-> assessComplexity(content),
         hours |-> extractHours(content, name),
         prerequisites |-> extractPrerequisites(content),
         timing |-> extractTiming(content)]

----------------------------------------------------------------------------
(* DocumentAnalyzer.searchDocuments *)

\* /\s+/
whitespacePattern == Plus(Chr(WhiteSpace))

\* term => term.length > 2
MinTermLength == 3

\* lowerQuery.split(/\s+/).filter(term => term.length > 2)
queryTerms(q) ==
    SelectSeq(split(toLowerCase(q), whitespacePattern), LAMBDA term : Len(term) >= MinTermLength)

\* (doc.name + ' ' + doc.content).toLowerCase()
searchText(d) == toLowerCase(d.name \o <<" ">> \o d.content)

RECURSIVE MatchCountFrom(_, _, _)
\* queryTerms.reduce((count, term) => count + text.split(term).length - 1, 0), from term k on
MatchCountFrom(d, terms, k) ==
    IF k > Len(terms) THEN 0
    ELSE SplitCount(searchText(d), terms[k]) + MatchCountFrom(d, terms, k + 1)

\* a term counted once per document instead of once per occurrence
MatchCountOncePerTerm(d, terms) ==
    Cardinality({k \in 1..Len(terms) : includes(searchText(d), terms[k])})

\* aMatches / bMatches of the comparator
MatchCount(d, terms) == MatchCountFrom(d, terms, 1)

\* every term required instead of any
MatchesAllTerms(d, terms) == \A k \in 1..Len(terms) : includes(searchText(d), terms[k])

\* queryTerms.some(term => searchText.includes(term))
MatchesAnyTerm(d, terms) == \E k \in 1..Len(terms) : includes(searchText(d), terms[k])

\* a sort that is not stable: d is put before the elements of its own score
InsertBeforeEqual(xs, d, terms) ==
    LET before == {k \in 0..Len(xs) : \A j \in 1..k : MatchCount(xs[j], terms) > MatchCount(d, terms)}
        k == CHOOSE x \in before : \A y \in before : x >= y
    IN  SubSeq(xs, 1, k) \o <<d>> \o SubSeq(xs, k + 1, Len(xs))

\* the position Array.prototype.sort (stable) gives d among the sorted xs under
\* the comparator (a, b) => bMatches - aMatches: after every element that
\* does not score less
InsertByRelevance(xs, d, terms) ==
    LET before == {k \in 0..Len(xs) : \A j \in 1..k : MatchCount(xs[j], terms) >= MatchCount(d, terms)}
        k == CHOOSE x \in before : \A y \in before : x >= y
    IN  SubSeq(xs, 1, k) \o <<d>> \o SubSeq(xs, k + 1, Len(xs))

RECURSIVE SortByRelevance(_, _)
\* .sort((a, b) => bMatches - aMatches)
SortByRelevance(xs, terms) ==
    IF xs = <<>> THEN <<>>
    ELSE InsertByRelevance(SortByRelevance(SubSeq(xs, 1, Len(xs) - 1), terms), xs[Len(xs)], terms)

\* docs.filter(...).sort(...) with the terms of the query
SearchByTerms(ds, terms) ==
    SortByRelevance(SelectSeq(ds, LAMBDA d : MatchesAnyTerm(d, terms)), terms)

searchDocuments(ds, q) == SearchByTerms(ds, queryTerms(q))

----------------------------------------------------------------------------
(* DocumentAnalyzer.answerQuestion *)

\* the complexity label as it is interpolated into a text
ComplexityText ==
    [high |-> <<"h","i","g","h">>, medium |-> <<"m","e","d","i","u","m">>, low |-> <<"l","o","w">>, unknown |-> <<"u","n","k","n","o","w","n">>]

\* x || fallback, for a text x
OrElse(x, fallback) == IF x # <<>> THEN x ELSE fallback

\* x || fallback, for a string | null x
ValueOrElse(x, fallback) == IF Truthy(x) THEN x.v ELSE fallback

\* docs.map(doc => ({ doc, analysis: this.analyzeDocument(doc) }))
Analyses(ds) == [k \in 1..Len(ds) |-> [doc |-> ds[k], analysis |-> analyzeDocument(ds[k])]]

\* xs.slice(0, n)
Take(xs, n) == SubSeq(xs, 1, IF Len(xs) < n THEN Len(xs) ELSE n)

\* the number of search results an answer shows: slice(0, 3)
AnswerLimit == 3

EstimationEntry(a) ==
    <<"*","*">> \o a.doc.name \o <<"*","*",":"," ">> \o a.analysis.estimation.v \o <<"\n">>
    \o (IF a.analysis.complexity # "unknown"
        THEN <<" "," ","-"," ","C","o","m","p","l","e","x","i","t","y",":"," ">> \o ComplexityText[a.analysis.complexity] \o <<"\n">>
        ELSE <<>>)
    \o <<"\n">>

\* the answer from the analyses that have an estimation
EstimationAnswer(analyses) ==
    IF Len(analyses) = 0
    THEN <<"N","o"," ","e","s","t","i","m","a","t","i","o","n"," ","i","n","f","o","r","m","a","t","i","o","n"," ","f","o","u","n","d"," ","i","n"," ","t","h","e"," ","a","v","a","i","l","a","b","l","e"," ","p","l","a","y","b","o","o","k","s",".">>
    ELSE <<"H","e","r","e"," ","a","r","e"," ","t","h","e"," ","e","s","t","i","m","a","t","i","o","n","s"," ","f","o","u","n","d",":","\n","\n">>
         \o Concat([k \in 1..Len(analyses) |-> EstimationEntry(analyses[k])])

answerEstimationQuestion(ds, question) ==
    EstimationAnswer(SelectSeq(Analyses(ds), LAMBDA a : Truthy(a.analysis.estimation)))

\* analysis.requirements.forEach(req => { response += `  - ${req}\n`; })
RequirementLines(reqs, prefix) ==
    Concat([k \in 1..Len(reqs) |-> prefix \o reqs[k] \o <<"\n">>])

RequirementsEntry(a) ==
    <<"*","*">> \o a.doc.name \o <<"*","*",":","\n">> \o RequirementLines(a.analysis.requirements, <<" "," ","-"," ">>) \o <<"\n">>

\* the answer from the analyses that have requirements
RequirementsAnswer(analyses) ==
    IF Len(analyses) = 0
    THEN <<"N","o"," ","s","p","e","c","i","f","i","c"," ","r","e","q","u","i","r","e","m","e","n","t","s"," ","f","o","u","n","d"," ","i","n"," ","t","h","e"," ","a","v","a","i","l","a","b","l","e"," ","p","l","a","y","b","o","o","k","s",".">>
    ELSE <<"H","e","r","e"," ","a","r","e"," ","t","h","e"," ","r","e","q","u","i","r","e","m","e","n","t","s"," ","f","o","u","n","d",":","\n","\n">>
         \o Concat([k \in 1..Len(analyses) |-> RequirementsEntry(analyses[k])])

answerRequirementsQuestion(ds, question) ==
    RequirementsAnswer(SelectSeq(Analyses(ds), LAMBDA a : Len(a.analysis.requirements) > 0))

DescriptionEntry(a) ==
    <<"*","*">> \o a.doc.name \o <<"*","*","\n">>
    \o OrElse(a.analysis.description, <<"N","o"," ","d","e","s","c","r","i","p","t","i","o","n"," ","a","v","a","i","l","a","b","l","e">>) \o <<"\n">>
    \o (IF Len(a.analysis.tags) > 0
        THEN <<"T","a","g","s",":"," ">> \o Join(a.analysis.tags, <<","," ">>) \o <<"\n">> ELSE <<>>)
    \o (IF Truthy(a.analysis.estimation)
        THEN <<"E","s","t","i","m","a","t","e","d"," ","t","i","m","e",":"," ">> \o a.analysis.estimation.v \o <<"\n">> ELSE <<>>)
    \o <<"\n">>

\* the answer from the documents the search kept
DescriptionAnswer(relevantDocs) ==
    IF Len(relevantDocs) = 0
    THEN <<"N","o"," ","r","e","l","e","v","a","n","t"," ","p","l","a","y","b","o","o","k","s"," ","f","o","u","n","d"," ","f","o","r"," ","y","o","u","r"," ","q","u","e","s","t","i","o","n",".">>
    ELSE <<"H","e","r","e"," ","a","r","e"," ","t","h","e"," ","r","e","l","e","v","a","n","t"," ","p","l","a","y","b","o","o","k","s",":","\n","\n">>
         \o Concat([k \in 1..Len(relevantDocs) |->
                       DescriptionEntry([doc |-> relevantDocs[k],
                                         analysis |-> analyzeDocument(relevantDocs[k])])])

answerDescriptionQuestion(ds, question) ==
    DescriptionAnswer(Take(searchDocuments(ds, question), AnswerLimit))

GeneralEntry(a) ==
    <<"*","*">> \o a.doc.name \o <<"*","*","\n">>
    \o OrElse(a.analysis.description, <<"N","o"," ","d","e","s","c","r","i","p","t","i","o","n"," ","a","v","a","i","l","a","b","l","e">>) \o <<"\n">>
    \o (IF Truthy(a.analysis.estimation)
        THEN <<"{stopwatch}"," ","E","s","t","i","m","a","t","i","o","n",":"," ">> \o a.analysis.estimation.v \o <<"\n">> ELSE <<>>)
    \o (IF Len(a.analysis.requirements) > 0
        THEN <<"{clipboard}"," ","R","e","q","u","i","r","e","m","e","n","t","s",":"," ">>
             \o Join(Take(a.analysis.requirements, AnswerLimit), <<","," ">>)
             \o (IF Len(a.analysis.requirements) > AnswerLimit THEN <<".",".",".">> ELSE <<>>)
             \o <<"\n">>
        ELSE <<>>)
    \o (IF Len(a.analysis.tags) > 0
        THEN <<"{label}"," ","T","a","g","s",":"," ">> \o Join(a.analysis.tags, <<","," ">>) \o <<"\n">> ELSE <<>>)
    \o <<"\n">>

formatGeneralAnswer(analyses, question) ==
    <<"F","o","u","n","d"," ">> \o NatToDigits(Len(analyses)) \o <<" ","r","e","l","e","v","a","n","t"," ","p","l","a","y","b","o","o","k","(","s",")",":","\n","\n">>
    \o Concat([k \in 1..Len(analyses) |-> GeneralEntry(analyses[k])])

\* the if-chain with the requirements test ahead of the estimation test
QuestionTypeRequirementsFirst(question) ==
    LET lowerQuestion == toLowerCase(question)
    IN  IF \/ includes(lowerQuestion, <<"r","e","q","u","i","r","e","m","e","n","t">>)
           \/ includes(lowerQuestion, <<"n","e","e","d">>)
           \/ includes(lowerQuestion, <<"p","r","e","r","e","q","u","i","s","i","t","e">>) THEN "requirements"
        ELSE IF \/ includes(lowerQuestion, <<"e","s","t","i","m","a","t","e">>)
                \/ includes(lowerQuestion, <<"t","i","m","e">>)
                \/ includes(lowerQuestion, <<"d","u","r","a","t","i","o","n">>) THEN "estimation"
        ELSE IF \/ includes(lowerQuestion, <<"d","e","s","c","r","i","p","t","i","o","n">>)
                \/ includes(lowerQuestion, <<"w","h","a","t">>)
                \/ includes(lowerQuestion, <<"h","o","w">>) THEN "description"
        ELSE "general"

\* the branch the if-chain of answerQuestion selects
QuestionType(question) ==
    LET lowerQuestion == toLowerCase(question)
    IN  IF \/ includes(lowerQuestion, <<"e","s","t","i","m","a","t","e">>)
           \/ includes(lowerQuestion, <<"t","i","m","e">>)
           \/ includes(lowerQuestion, <<"d","u","r","a","t","i","o","n">>) THEN "estimation"
        ELSE IF \/ includes(lowerQuestion, <<"r","e","q","u","i","r","e","m","e","n","t">>)
                \/ includes(lowerQuestion, <<"n","e","e","d">>)
                \/ includes(lowerQuestion, <<"p","r","e","r","e","q","u","i","s","i","t","e">>) THEN "requirements"
        ELSE IF \/ includes(lowerQuestion, <<"d","e","s","c","r","i","p","t","i","o","n">>)
                \/ includes(lowerQuestion, <<"w","h","a","t">>)
                \/ includes(lowerQuestion, <<"h","o","w">>) THEN "description"
        ELSE "general"

\* the general search of answerQuestion, relevantDocs the documents it kept
GeneralAnswer(relevantDocs, question) ==
    IF Len(relevantDocs) = 0
    THEN <<"I"," ","c","o","u","l","d","n","'","t"," ","f","i","n","d"," ","a","n","y"," ","r","e","l","e","v","a","n","t"," ","d","o","c","u","m","e","n","t","s"," ","f","o","r"," ","y","o","u","r"," ","q","u","e","s","t","i","o","n",".">>
    ELSE formatGeneralAnswer(Analyses(Take(relevantDocs, AnswerLimit)), question)

\* the answer of the branch the question selects
AnswerOfType(type, ds, question) ==
    IF type = "estimation" THEN answerEstimationQuestion(ds, question)
    ELSE IF type = "requirements" THEN answerRequirementsQuestion(ds, question)
    ELSE IF type = "description" THEN answerDescriptionQuestion(ds, question)
    ELSE GeneralAnswer(searchDocuments(ds, question), question)

answerQuestion(ds, question) == AnswerOfType(QuestionType(question), ds, question)

----------------------------------------------------------------------------
(* ClickUpClient: the document fetches *)

baseUrl == <<"h","t","t","p","s",":","/","/","a","p","i",".","c","l","i","c","k","u","p",".","c","o","m","/","a","p","i","/","v","2">>
baseUrlV3 == <<"h","t","t","p","s",":","/","/","a","p","i",".","c","l","i","c","k","u","p",".","c","o","m","/","a","p","i","/","v","3">>

\* the folder of the playbooks (CLICKUP_PLAYBOOKS_FOLDER_ID || '98107928') and another one
DefaultFolderId == <<"9","8","1","0","7","9","2","8">>
FolderIds == {DefaultFolderId, <<"5","5","5">>}
ParentPageIds == {<<"p","p","1">>, <<"p","p","2">>}

\* documents as the listing endpoint returns them, with the pages the pages
\* endpoint returns for each
RawAudit ==
    [id |-> <<"1","0","1">>, doc_id |-> <<>>, name |-> <<"H","u","b","S","p","o","t"," ","A","u","d","i","t"," ","P","l","a","y","b","o","o","k">>, content |-> <<>>,
     parent |-> [id |-> DefaultFolderId, name |-> <<>>], parent_page_id |-> <<"p","p","1">>,
     date_created |-> <<"1","7","0","0","0","0","0","0","0","0","0","0","0">>, date_updated |-> <<"1","7","0","0","0","0","0","0","0","0","0","0","1">>,
     creator |-> [some |-> TRUE, v |-> 7],
     pages |-> <<<<"R","e","q","u","i","r","e","m","e","n","t","s",":","\n","-"," ","a","c","c","e","s","s"," ","t","o"," ","H","u","b","S","p","o","t","\n","E","s","t","i","m","a","t","e",":"," ","3"," ","d","a","y","s","\n","T","h","i","s"," ","p","l","a","y","b","o","o","k"," ","c","o","v","e","r","s"," ","a"," ","f","u","l","l"," ","a","u","d","i","t"," ","o","f"," ","H","u","b","S","p","o","t"," ","c","o","n","f","i","g","u","r","a","t","i","o","n",".">>>>]
RawDeploy ==
    [id |-> <<"1","0","2">>, doc_id |-> <<"d","-","1","0","2">>, name |-> <<"D","e","p","l","o","y"," ","[","2","h","]">>, content |-> <<"T","a","k","e","s"," ","2"," ","h","o","u","r","s","."," ","5"," ","p","o","i","n","t","s">>,
     parent |-> [id |-> DefaultFolderId, name |-> <<>>], parent_page_id |-> <<"p","p","1">>,
     date_created |-> <<"1","7","0","0","0","0","0","0","0","0","0","0","2">>, date_updated |-> <<"1","7","0","0","0","0","0","0","0","0","0","0","3">>,
     creator |-> [some |-> FALSE, v |-> 0],
     pages |-> <<>>]
RawUntitled ==
    [id |-> <<"1","0","3">>, doc_id |-> <<>>, name |-> <<>>, content |-> <<>>,
     parent |-> [id |-> <<"5","5","5">>, name |-> <<"A","r","c","h","i","v","e">>], parent_page_id |-> <<"p","p","2">>,
     date_created |-> <<>>, date_updated |-> <<>>,
     creator |-> [some |-> FALSE, v |-> 0],
     pages |-> <<<<" "," ">>, <<"P","r","o","c","e","s","s"," ","s","t","e","p","s">>, <<"c","h","e","c","k","l","i","s","t">>>>]
RawGuide ==
    [id |-> <<"1","0","4">>, doc_id |-> <<"d","-","1","0","4">>, name |-> <<"S","e","t","u","p"," ","G","u","i","d","e">>, content |-> <<>>,
     parent |-> [id |-> DefaultFolderId, name |-> <<>>], parent_page_id |-> <<"p","p","1">>,
     date_created |-> <<"1","7","0","0","0","0","0","0","0","0","0","0","4">>, date_updated |-> <<"1","7","0","0","0","0","0","0","0","0","0","0","5">>,
     creator |-> [some |-> TRUE, v |-> 7],
     pages |-> <<<<"S","e","t","u","p",":"," ","s","i","m","p","l","e","\n","-"," ","i","n","s","t","a","l","l"," ","a","l","l">>>>]

\* the workspaces the model runs against
Workspaces ==
    {<<>>, <<RawAudit, RawDeploy>>, <<RawGuide, RawAudit>>, <<RawUntitled, RawAudit>>,
     <<RawDeploy, RawUntitled, RawGuide>>}

NoRequest == [method |-> "none"]

\* what the service can do with a request: answer it, answer it with a
\* status that is not OK, or not answer (fetch rejects)
Outcomes == {"ok", "not ok", "rejected"}

\* makeRequest throws on a rejected fetch and on !response.ok
Throws(outcome) == outcome # "ok"

\* the characters application/x-www-form-urlencoded leaves as they are
FormSafe == Digit \cup LowerLetter \cup UpperLetter \cup {"*", "-", ".", "_"}

\* the percent-encoding of the other characters a parameter of the model holds
FormEscape ==
    [ch \in {" ", "/", "?", "&", "=", "#"} |->
        CASE ch = " " -> <<"+">>
          [] ch = "/" -> <<"%","2","F">>
          [] ch = "?" -> <<"%","3","F">>
          [] ch = "&" -> <<"%","2","6">>
          [] ch = "=" -> <<"%","3","D">>
          [] ch = "#" -> <<"%","2","3">>]

\* URLSearchParams.toString of one value
FormEncode(s) == Concat([k \in 1..Len(s) |-> IF s[k] \in FormSafe THEN <<s[k]>> ELSE FormEscape[s[k]]])

\* the same with POST where the options name no method
makeRequestPosting(endpoint, options, useV3) ==
    [method |-> IF "method" \in DOMAIN options THEN options.method ELSE "POST",
     url |-> (IF useV3 THEN baseUrlV3 ELSE baseUrl) \o endpoint,
     authorization |-> config.apiToken]

\* the request makeRequest hands to fetch
makeRequest(endpoint, options, useV3) ==
    [method |-> IF "method" \in DOMAIN options THEN options.method ELSE "GET",
     url |-> (IF useV3 THEN baseUrlV3 ELSE baseUrl) \o endpoint,
     authorization |-> config.apiToken]

\* the listing request of getDocs
FolderListingRequest(folderId) ==
    makeRequest(<<"/","w","o","r","k","s","p","a","c","e","s","/">> \o config.workspaceId
                \o <<"/","d","o","c","s","?","d","e","l","e","t","e","d","=","f","a","l","s","e","&","a","r","c","h","i","v","e","d","=","f","a","l","s","e","&","l","i","m","i","t","=","5","0","&","p","a","r","e","n","t","_","i","d","=">>
                \o FormEncode(folderId),
                [method |-> "GET"], TRUE)

\* the listing request of getAllDocs and getDocsByParentPageId
WorkspaceListingRequest ==
    makeRequest(<<"/","w","o","r","k","s","p","a","c","e","s","/">> \o config.workspaceId \o <<"/","d","o","c","s">>, [method |-> "GET"], TRUE)

ListingRequest(op, arg) ==
    IF op = "getDocs" THEN FolderListingRequest(arg) ELSE WorkspaceListingRequest

\* the requests of the client methods that no handler calls
getWorkspaces == makeRequest(<<"/","t","e","a","m">>, <<>>, FALSE)
getSpaces(workspaceId) == makeRequest(<<"/","t","e","a","m","/">> \o workspaceId \o <<"/","s","p","a","c","e">>, <<>>, FALSE)
getFolders(spaceId, archived) ==
    makeRequest(<<"/","s","p","a","c","e","/">> \o spaceId \o <<"/","f","o","l","d","e","r","?","a","r","c","h","i","v","e","d","=">>
                \o (IF archived THEN <<"t","r","u","e">> ELSE <<"f","a","l","s","e">>), <<>>, FALSE)
getFolder(folderId) == makeRequest(<<"/","f","o","l","d","e","r","/">> \o folderId, <<>>, FALSE)
getTasksInList(listId) == makeRequest(<<"/","l","i","s","t","/">> \o listId \o <<"/","t","a","s","k">>, <<>>, FALSE)

\* the request of getDocPages
getDocPages(docId) ==
    makeRequest(<<"/","w","o","r","k","s","p","a","c","e","s","/">> \o config.workspaceId \o <<"/","d","o","c","s","/">> \o docId
                \o <<"/","p","a","g","e","s","?","m","a","x","_","p","a","g","e","_","d","e","p","t","h","=","-","1","&","c","o","n","t","e","n","t","_","f","o","r","m","a","t","=","t","e","x","t","%","2","F","m","d">>,
                <<>>, TRUE)

\* doc.doc_id || doc.id
docIdToUse(d) == OrElse(d.doc_id, d.id)

\* the whole workspace listed whatever the request
ListedDocsOfWorkspace(op, arg) == remote

\* the documents the service lists for the request: those of the folder when
\* parent_id is given, the whole workspace otherwise
ListedDocs(op, arg) ==
    IF op = "getDocs" THEN SelectSeq(remote, LAMBDA d : d.parent.id = arg) ELSE remote

\* filteredDocs: getDocsByParentPageId keeps the documents of the parent page
filteredDocs(op, arg, listed) ==
    IF op = "getDocsByParentPageId"
    THEN SelectSeq(listed, LAMBDA d : d.parent_page_id = arg)
    ELSE listed

\* pages.map(page => page.content || '').filter(c => c.trim().length > 0).join('\n\n')
PagesContent(pages) == Join(SelectNonBlank(pages), <<"\n","\n">>)

\* typeof creator === 'number' ? { id: creator.toString(), ... } : creator || { id: '', ... }
formatCreator(creator) ==
    IF creator.some
    THEN [id |-> NatToDigits(creator.v), username |-> <<>>, email |-> <<>>]
    ELSE [id |-> <<>>, username |-> <<>>, email |-> <<>>]

\* the folder each method attaches to its documents
FolderOf(op, arg, d) ==
    CASE op = "getDocs" -> [id |-> arg, name |-> <<"P","l","a","y","b","o","o","k"," ","I","n","s","t","r","u","c","t","i","o","n","s">>]
      [] op = "getAllDocs" -> [id |-> OrElse(d.parent.id, <<"u","n","k","n","o","w","n">>),
                               name |-> OrElse(d.parent.name, <<"U","n","k","n","o","w","n"," ","F","o","l","d","e","r">>)]
      [] op = "getDocsByParentPageId" -> [id |-> arg, name |-> <<"P","l","a","y","b","o","o","k","s">>]

\* the ClickUpDoc pushed for the listed document d
ClickUpDoc(op, arg, d, content) ==
    [id |-> d.id,
     name |-> OrElse(d.name, <<"U","n","t","i","t","l","e","d">>),
     content |-> content,
     date_created |-> d.date_created,
     date_updated |-> d.date_updated,
     creator |-> formatCreator(d.creator),
     folder |-> FolderOf(op, arg, d)]

\* the loop asking for the pages of every document
HasDirectContentNever(op, d) == FALSE

\* whether the loop takes the content from the listing instead of asking for
\* the pages: getAllDocs always asks
HasDirectContent(op, d) == op # "getAllDocs" /\ d.content # <<>>

\* the catch of the loop body putting the document before the others
AfterPagesFailurePrepends(op, arg, d, built) ==
    IF op = "getDocsByParentPageId" THEN built
    ELSE <<ClickUpDoc(op, arg, d, <<>>)>> \o built

\* the catch of the loop body: getDocs and getAllDocs still push the document,
\* with an empty content; getDocsByParentPageId only logs
AfterPagesFailure(op, arg, d, built) ==
    IF op = "getDocsByParentPageId" THEN built
    ELSE Append(built, ClickUpDoc(op, arg, d, <<>>))

\* a promise of a client method, settled
Resolved(v) == [state |-> "resolved", value |-> v]
Rejected(message) == [state |-> "rejected", value |-> message]
Pending == [state |-> "pending", value |-> <<>>]

\* the outer catch letting the error through instead of returning []
RethrowFromCatch == Rejected(<<"C","l","i","c","k","U","p"," ","A","P","I"," ","e","r","r","o","r">>)

\* the outer catch of the three methods: console.error and return []
ReturnFromCatch == Resolved(<<>>)

RECURSIVE Loop(_, _, _, _)
\* the for loop over the listed documents, run up to its next await: either
\* the method returns its docs, or it waits for the pages of the first
\* document left
Loop(op, arg, rest, built) ==
    IF rest = <<>>
    THEN [pc |-> "done", listing |-> <<>>, acc |-> <<>>, net |-> NoRequest, ret |-> Resolved(built)]
    ELSE IF HasDirectContent(op, Head(rest))
    THEN Loop(op, arg, Tail(rest),
              Append(built, ClickUpDoc(op, arg, Head(rest), Head(rest).content)))
    ELSE IF config.workspaceId = <<>>
    THEN Loop(op, arg, Tail(rest), AfterPagesFailure(op, arg, Head(rest), built))
    ELSE [pc |-> "pages", listing |-> rest, acc |-> built,
          net |-> getDocPages(docIdToUse(Head(rest))), ret |-> Pending]

\* an exchange with the service: the request, and whether it is still
\* pending, was answered, or failed (rejected, or answered with a status
\* that is not OK)
Exchange(request) == [request |-> request, status |-> "pending"]

\* the last exchange of the log settled
Settled(sent, outcome) ==
    [sent EXCEPT ![Len(sent)].status = IF Throws(outcome) THEN "failed" ELSE "answered"]

\* the method answering from the documents of its last call
EnterCached(op, arg, sent) ==
    /\ call' = [op |-> op, arg |-> arg]
    /\ listing' = <<>>
    /\ acc' = <<>>
    /\ IF config.workspaceId = <<>> \/ (ret.state = "resolved" /\ call = [op |-> op, arg |-> arg])
       THEN /\ pc' = "done"
            /\ net' = NoRequest
            /\ ret' = IF config.workspaceId = <<>> THEN ReturnFromCatch ELSE ret
            /\ log' = sent
       ELSE /\ pc' = "listing"
            /\ net' = ListingRequest(op, arg)
            /\ ret' = Pending
            /\ log' = Append(sent, Exchange(ListingRequest(op, arg)))

\* the method is entered: without a workspace id it throws into its own
\* catch, otherwise it sends the listing request
Enter(op, arg, sent) ==
    /\ call' = [op |-> op, arg |-> arg]
    /\ listing' = <<>>
    /\ acc' = <<>>
    /\ IF config.workspaceId = <<>>
       THEN /\ pc' = "done"
            /\ net' = NoRequest
            /\ ret' = ReturnFromCatch
            /\ log' = sent
       ELSE /\ pc' = "listing"
            /\ net' = ListingRequest(op, arg)
            /\ ret' = Pending
            /\ log' = Append(sent, Exchange(ListingRequest(op, arg)))

\* the position the loop reaches next
Continue(next, sent) ==
    /\ pc' = next.pc
    /\ listing' = next.listing
    /\ acc' = next.acc
    /\ net' = next.net
    /\ ret' = next.ret
    /\ log' = IF next.net = NoRequest THEN sent ELSE Append(sent, Exchange(next.net))

\* the listing request settles
ListingReply ==
    /\ pc = "listing"
    /\ \E outcome \in Outcomes :
          IF Throws(outcome)
          THEN /\ pc' = "done"
               /\ net' = NoRequest
               /\ ret' = ReturnFromCatch
               /\ log' = Settled(log, outcome)
               /\ UNCHANGED <<listing, acc>>
          ELSE Continue(Loop(call.op, call.arg,
                             filteredDocs(call.op, call.arg, ListedDocs(call.op, call.arg)), <<>>),
                        Settled(log, outcome))
    /\ UNCHANGED <<config, remote, call, analyzerVars, serverVars>>

\* the pages request of the first document left settles
PagesReply ==
    /\ pc = "pages"
    /\ \E outcome \in Outcomes :
          LET d == Head(listing)
              built == IF Throws(outcome)
                       THEN AfterPagesFailure(call.op, call.arg, d, acc)
                       ELSE Append(acc, ClickUpDoc(call.op, call.arg, d, PagesContent(d.pages)))
          IN  Continue(Loop(call.op, call.arg, Tail(listing), built), Settled(log, outcome))
    /\ UNCHANGED <<config, remote, call, analyzerVars, serverVars>>

\* a caller invokes one of the three methods
Invoke ==
    /\ pc \in {"idle", "done"}
    /\ \/ \E folderId \in FolderIds : Enter("getDocs", folderId, <<>>)
       \/ Enter("getAllDocs", <<>>, <<>>)
       \/ \E parentPageId \in ParentPageIds : Enter("getDocsByParentPageId", parentPageId, <<>>)
    /\ UNCHANGED <<config, remote, analyzerVars, serverVars>>

----------------------------------------------------------------------------
(* ClickUpPlaybooksMCP: the tools *)

\* this.playbooksFolderId
playbooksFolderId == DefaultFolderId

\* an argument the request leaves out, and one it gives
Missing == [some |-> FALSE, v |-> <<>>]
Given(s) == [some |-> TRUE, v |-> s]

\* what a tool method comes to: a text returned (caught: the message of an
\* error the method caught itself), or an error thrown
Returned(text) == [thrown |-> FALSE, text |-> text, caught |-> Missing]
Thrown(message) == [thrown |-> TRUE, text |-> message, caught |-> Missing]

\* whether a promise awaited throws
Failed(p) == p.state = "rejected"

\* the message of the TypeError of undefined.toLowerCase()
NoToLowerCase == <<"C","a","n","n","o","t"," ","r","e","a","d"," ","p","r","o","p","e","r","t","i","e","s"," ","o","f"," ","u","n","d","e","f","i","n","e","d"," ","(","r","e","a","d","i","n","g"," ","'","t","o","L","o","w","e","r","C","a","s","e","'",")">>

NoPlaybooksInFolder ==
    <<"N","o"," ","p","l","a","y","b","o","o","k","s"," ","f","o","u","n","d"," ","i","n"," ","f","o","l","d","e","r"," ">> \o playbooksFolderId
    \o <<"."," ","C","h","e","c","k"," ","y","o","u","r"," ","f","o","l","d","e","r"," ","I","D"," ","a","n","d"," ","A","P","I"," ","p","e","r","m","i","s","s","i","o","n","s",".">>

\* s.substring(0, n)
Prefix(s, n) == SubSeq(s, 1, IF Len(s) < n THEN Len(s) ELSE n)

\* the characters of the content a search result shows
PreviewLength == 150

\* the playbooks named when nothing matches
NamedLimit == 10

\* the numbered entry of the list of all playbooks
ListedEntry(d, index) ==
    NatToDigits(index) \o <<"."," ","*","*">> \o d.name \o <<"*","*","\n"," "," "," ","-"," ","I","D",":"," ">> \o d.id
    \o <<"\n"," "," "," ","-"," ","C","o","n","t","e","n","t",":"," ">> \o NatToDigits(Len(d.content)) \o <<" ","c","h","a","r","a","c","t","e","r","s">>

\* !query || query.trim() === '' || query === '*' || query.toLowerCase().includes('all')
WantsAll(q) ==
    \/ ~Truthy(q)
    \/ trim(q.v) = <<>>
    \/ q.v = <<"*">>
    \/ includes(toLowerCase(q.v), <<"a","l","l">>)

\* the text for the results of the search
SearchResults(q, ds, results) ==
    IF Len(results) > 0
    THEN <<"F","o","u","n","d"," ">> \o NatToDigits(Len(results)) \o <<" ","p","l","a","y","b","o","o","k","(","s",")"," ","m","a","t","c","h","i","n","g"," ","\"">>
         \o q.v \o <<"\"",":","\n","\n">>
         \o Join([k \in 1..Len(results) |->
                     <<"-"," ","*","*">> \o results[k].name \o <<"*","*","\n"," "," ">>
                     \o Prefix(results[k].content, PreviewLength) \o <<".",".",".">>], <<"\n","\n">>)
    ELSE <<"F","o","u","n","d"," ">> \o NatToDigits(Len(ds)) \o <<" ","t","o","t","a","l"," ","p","l","a","y","b","o","o","k","s",","," ","b","u","t"," ","n","o","n","e"," ","m","a","t","c","h","e","d"," ","\"">>
         \o q.v \o <<"\"","."," ","A","v","a","i","l","a","b","l","e"," ","p","l","a","y","b","o","o","k","s",":","\n","\n">>
         \o Join([k \in 1..Len(Take(ds, NamedLimit)) |-> <<"-"," ","*","*">> \o ds[k].name \o <<"*","*">>], <<"\n">>)
         \o (IF Len(ds) > NamedLimit
             THEN <<"\n",".",".","."," ","a","n","d"," ">> \o NatToDigits(Len(ds) - NamedLimit) \o <<" ","m","o","r","e">>
             ELSE <<>>)

searchPlaybooks(q, ds) ==
    Returned(
        IF WantsAll(q)
        THEN IF Len(ds) = 0 THEN NoPlaybooksInFolder
             ELSE <<"F","o","u","n","d"," ">> \o NatToDigits(Len(ds)) \o <<" ","t","o","t","a","l"," ","p","l","a","y","b","o","o","k","s",":","\n","\n">>
                  \o Join([k \in 1..Len(ds) |-> ListedEntry(ds[k], k)], <<"\n","\n">>)
        ELSE IF Len(ds) = 0 THEN NoPlaybooksInFolder
        ELSE SearchResults(q, ds, searchDocuments(ds, q.v)))

\* the line of one analysis that has an estimation
EstimationLine(a) ==
    <<"*","*">> \o a.doc.name \o <<"*","*",":"," ">> \o a.analysis.estimation.v
    \o <<" ","(">> \o ComplexityText[a.analysis.complexity] \o <<" ","c","o","m","p","l","e","x","i","t","y",")">>

\* the text for the lines of the estimations
EstimationsText(estimations) ==
    IF Len(estimations) > 0
    THEN <<"P","l","a","y","b","o","o","k"," ","e","s","t","i","m","a","t","i","o","n","s",":","\n","\n">> \o Join(estimations, <<"\n">>)
    ELSE <<"N","o"," ","e","s","t","i","m","a","t","i","o","n"," ","i","n","f","o","r","m","a","t","i","o","n"," ","f","o","u","n","d"," ","i","n"," ","p","l","a","y","b","o","o","k","s">>

\* analyses.filter(...).map(...)
EstimationLines(found) == [k \in 1..Len(found) |-> EstimationLine(found[k])]

getPlaybookEstimations(ds) ==
    Returned(EstimationsText(EstimationLines(
        SelectSeq(Analyses(ds), LAMBDA a : Truthy(a.analysis.estimation)))))

\* the requirements text returned whether or not an entry was written into it
RequirementsTextUnchecked(text) == text

\* response.includes('**') ? response : 'No specific requirements found in playbooks'
RequirementsText(text) ==
    IF includes(text, <<"*","*">>) THEN text
    ELSE <<"N","o"," ","s","p","e","c","i","f","i","c"," ","r","e","q","u","i","r","e","m","e","n","t","s"," ","f","o","u","n","d"," ","i","n"," ","p","l","a","y","b","o","o","k","s">>

\* the entry of one analysis, when it has requirements
RequirementsOf(a) ==
    IF Len(a.analysis.requirements) > 0 THEN RequirementsEntry(a) ELSE <<>>

\* the entries of the analyses
RequirementsEntries(analyses) ==
    Concat([k \in 1..Len(analyses) |-> RequirementsOf(analyses[k])])

getPlaybookRequirements(ds) ==
    Returned(RequirementsText(<<"P","l","a","y","b","o","o","k"," ","r","e","q","u","i","r","e","m","e","n","t","s",":","\n","\n">> \o RequirementsEntries(Analyses(ds))))

askPlaybookQuestion(question, ds) ==
    IF ~question.some THEN Thrown(NoToLowerCase)
    ELSE Returned(answerQuestion(ds, question.v))

\* the position of docs.find(d => d.id === playbookId), 0 when there is none
FindById(ds, id) ==
    IF \E k \in 1..Len(ds) : id.some /\ ds[k].id = id.v
    THEN CHOOSE k \in 1..Len(ds) :
            /\ id.some /\ ds[k].id = id.v
            /\ \A j \in 1..(k - 1) : ds[j].id # id.v
    ELSE 0

\* the report on the playbook d
AnalysisReport(d, analysis) ==
    <<"#"," ","A","n","a","l","y","s","i","s"," ","o","f"," ","\"">> \o d.name \o <<"\"","\n","\n">>
    \o <<"*","*","D","e","s","c","r","i","p","t","i","o","n",":","*","*"," ">> \o OrElse(analysis.description, <<"N","o"," ","d","e","s","c","r","i","p","t","i","o","n"," ","a","v","a","i","l","a","b","l","e">>) \o <<"\n","\n">>
    \o <<"*","*","E","s","t","i","m","a","t","i","o","n",":","*","*"," ">> \o ValueOrElse(analysis.estimation, <<"N","o"," ","e","s","t","i","m","a","t","i","o","n"," ","f","o","u","n","d">>) \o <<"\n","\n">>
    \o <<"*","*","C","o","m","p","l","e","x","i","t","y",":","*","*"," ">> \o ComplexityText[analysis.complexity] \o <<"\n","\n">>
    \o (IF Len(analysis.requirements) > 0
        THEN <<"*","*","R","e","q","u","i","r","e","m","e","n","t","s",":","*","*","\n">> \o RequirementLines(analysis.requirements, <<"-"," ">>) \o <<"\n">>
        ELSE <<>>)
    \o (IF Len(analysis.tags) > 0
        THEN <<"*","*","T","a","g","s",":","*","*"," ">> \o Join(analysis.tags, <<","," ">>) \o <<"\n","\n">>
        ELSE <<>>)

\* the playbook at position k, 0 for none found
AnalysisOfFound(ds, k) ==
    IF k = 0 THEN Thrown(<<"P","l","a","y","b","o","o","k"," ","n","o","t"," ","f","o","u","n","d">>)
    ELSE Returned(AnalysisReport(ds[k], analyzeDocument(ds[k])))

analyzePlaybook(playbookId, ds) == AnalysisOfFound(ds, FindById(ds, playbookId))

\* parseInt: the leading digits of the text, none for undefined
LeadingDigits(s) ==
    LET stops == {k \in 1..(Len(s) + 1) : k = Len(s) + 1 \/ s[k] \notin Digit}
    IN  SubSeq(s, 1, (CHOOSE k \in stops : \A j \in stops : k <= j) - 1)

\* new Date(parseInt(s)).toLocaleDateString(): the rendering depends on the
\* locale of the host, and is kept as a function of the timestamp
toLocaleDateString(s) ==
    IF LeadingDigits(s) = <<>> THEN <<"I","n","v","a","l","i","d"," ","D","a","t","e">>
    ELSE <<"{toLocaleDateString}","(">> \o LeadingDigits(s) \o <<")">>

\* the documents test_api_connection shows
ShownLimit == 3

\* the catch of testApiConnection and of scanAllPlaybooks: the error is
\* appended to what the method has written
OwnCatch(written, message) ==
    [thrown |-> FALSE, text |-> written \o <<"{cross}"," ","*","*","E","r","r","o","r",":","*","*"," ">> \o message \o <<"\n">>,
     caught |-> Given(message)]

\* the same with the token written out
ConnectionHeaderShowingToken(apiToken) ==
    <<"#"," ","A","P","I"," ","C","o","n","n","e","c","t","i","o","n"," ","T","e","s","t","\n","\n">>
    \o <<"*","*","C","o","n","f","i","g","u","r","a","t","i","o","n",":","*","*","\n">>
    \o <<"-"," ","W","o","r","k","s","p","a","c","e"," ","I","D",":"," ">> \o config.workspaceId \o <<"\n">>
    \o <<"-"," ","F","o","l","d","e","r"," ","I","D",":"," ">> \o playbooksFolderId \o <<"\n">>
    \o <<"-"," ","A","P","I"," ","T","o","k","e","n",":"," ">> \o apiToken \o <<"\n","\n">>
    \o <<"*","*","T","e","s","t","i","n","g"," ","w","o","r","k","s","p","a","c","e"," ","d","o","c","s"," ","e","n","d","p","o","i","n","t",".",".",".","*","*","\n">>

\* what testApiConnection has written when it awaits getDocs, for the token
\* of the client's configuration
ConnectionHeaderWith(apiToken) ==
    <<"#"," ","A","P","I"," ","C","o","n","n","e","c","t","i","o","n"," ","T","e","s","t","\n","\n">>
    \o <<"*","*","C","o","n","f","i","g","u","r","a","t","i","o","n",":","*","*","\n">>
    \o <<"-"," ","W","o","r","k","s","p","a","c","e"," ","I","D",":"," ">> \o config.workspaceId \o <<"\n">>
    \o <<"-"," ","F","o","l","d","e","r"," ","I","D",":"," ">> \o playbooksFolderId \o <<"\n">>
    \o <<"-"," ","A","P","I"," ","T","o","k","e","n",":"," ">> \o (IF apiToken # <<>> THEN <<"P","r","e","s","e","n","t">> ELSE <<"M","i","s","s","i","n","g">>) \o <<"\n","\n">>
    \o <<"*","*","T","e","s","t","i","n","g"," ","w","o","r","k","s","p","a","c","e"," ","d","o","c","s"," ","e","n","d","p","o","i","n","t",".",".",".","*","*","\n">>

ConnectionHeader == ConnectionHeaderWith(config.apiToken)

testApiConnection(ds) ==
    Returned(
        ConnectionHeader
        \o <<"{check}"," ","R","e","t","r","i","e","v","e","d"," ">> \o NatToDigits(Len(ds)) \o <<" ","d","o","c","u","m","e","n","t","s","\n","\n">>
        \o (IF Len(ds) > 0
            THEN <<"*","*","F","i","r","s","t"," ","3"," ","d","o","c","u","m","e","n","t","s",":","*","*","\n">>
                 \o Concat([k \in 1..Len(Take(ds, ShownLimit)) |->
                       NatToDigits(k) \o <<"."," ","*","*">> \o ds[k].name \o <<"*","*"," ","(","I","D",":"," ">> \o ds[k].id \o <<")","\n">>
                       \o <<" "," "," ","-"," ","C","o","n","t","e","n","t"," ","l","e","n","g","t","h",":"," ">> \o NatToDigits(Len(ds[k].content)) \o <<" ","c","h","a","r","a","c","t","e","r","s","\n">>
                       \o <<" "," "," ","-"," ","C","r","e","a","t","e","d",":"," ">> \o toLocaleDateString(ds[k].date_created) \o <<"\n">>])
            ELSE <<"{warning}"," ","N","o"," ","d","o","c","u","m","e","n","t","s"," ","f","o","u","n","d"," ","i","n"," ","f","o","l","d","e","r"," ">> \o playbooksFolderId \o <<"\n">>
                 \o <<"T","h","i","s"," ","c","o","u","l","d"," ","m","e","a","n",":","\n">>
                 \o <<"-"," ","W","r","o","n","g"," ","f","o","l","d","e","r"," ","I","D","\n">>
                 \o <<"-"," ","N","o"," ","d","o","c","u","m","e","n","t","s"," ","i","n"," ","t","h","e"," ","f","o","l","d","e","r","\n">>
                 \o <<"-"," ","A","P","I"," ","p","e","r","m","i","s","s","i","o","n","s"," ","i","s","s","u","e","\n">>))

\* whether the name or the content of a workspace document looks like a playbook
LooksLikePlaybook(d) ==
    \/ \E w \in {<<"p","l","a","y","b","o","o","k">>, <<"g","u","i","d","e">>, <<"p","r","o","c","e","s","s">>, <<"a","u","d","i","t">>, <<"i","m","p","l","e","m","e","n","t","a","t","i","o","n">>} :
          includes(toLowerCase(d.name), w)
    \/ \E w \in {<<"p","l","a","y","b","o","o","k">>, <<"p","r","o","c","e","s","s">>, <<"s","t","e","p","s">>, <<"c","h","e","c","k","l","i","s","t">>} :
          includes(toLowerCase(d.content), w)

\* the entry of one playbook in the scan
ScannedEntry(d, analysis, index) ==
    <<"#","#","#"," ">> \o NatToDigits(index) \o <<"."," ","*","*">> \o d.name \o <<"*","*","\n">>
    \o <<"-"," ","*","*","I","D",":","*","*"," ">> \o d.id \o <<"\n">>
    \o <<"-"," ","*","*","F","o","l","d","e","r",":","*","*"," ">> \o OrElse(d.folder.name, <<"U","n","k","n","o","w","n">>)
    \o <<" ","(">> \o OrElse(d.folder.id, <<"U","n","k","n","o","w","n">>) \o <<")","\n">>
    \o <<"-"," ","*","*","C","o","n","t","e","n","t"," ","L","e","n","g","t","h",":","*","*"," ">> \o NatToDigits(Len(d.content)) \o <<" ","c","h","a","r","a","c","t","e","r","s","\n">>
    \o <<"-"," ","*","*","C","o","m","p","l","e","x","i","t","y",":","*","*"," ">> \o ComplexityText[analysis.complexity] \o <<"\n">>
    \o (IF Truthy(analysis.estimation)
        THEN <<"-"," ","*","*","E","s","t","i","m","a","t","i","o","n",":","*","*"," ">> \o analysis.estimation.v \o <<"\n">> ELSE <<>>)
    \o (IF analysis.description # <<>>
        THEN <<"-"," ","*","*","D","e","s","c","r","i","p","t","i","o","n",":","*","*"," ">> \o Prefix(analysis.description, PreviewLength) \o <<".",".",".","\n">>
        ELSE <<>>)
    \o (IF Len(analysis.tags) > 0
        THEN <<"-"," ","*","*","T","a","g","s",":","*","*"," ">> \o Join(analysis.tags, <<","," ">>) \o <<"\n">> ELSE <<>>)
    \o <<"-"," ","*","*","L","a","s","t"," ","U","p","d","a","t","e","d",":","*","*"," ">> \o toLocaleDateString(d.date_updated) \o <<"\n","\n">>

\* whether the name (and, when asked, the content) holds one of the words
NamedLike(d, words, alsoContent) ==
    \E w \in words :
        \/ includes(toLowerCase(d.name), w)
        \/ alsoContent /\ includes(toLowerCase(d.content), w)

\* one category of the summary, when it has members
CategoryEntry(category, members) ==
    IF Len(members) = 0 THEN <<>>
    ELSE <<"*","*">> \o category \o <<":","*","*"," ">> \o NatToDigits(Len(members)) \o <<" ","p","l","a","y","b","o","o","k","(","s",")","\n">>
         \o Concat([k \in 1..Len(members) |-> <<" "," ","-"," ">> \o members[k].name \o <<"\n">>])
         \o <<"\n">>

\* the summary by category
CategorySummary(playbooks) ==
    CategoryEntry(<<"H","u","b","S","p","o","t","/","C","R","M">>,
                  SelectSeq(playbooks, LAMBDA p : NamedLike(p, {<<"h","u","b","s","p","o","t">>}, TRUE)))
    \o CategoryEntry(<<"C","u","s","t","o","m"," ","O","b","j","e","c","t","s">>,
                     SelectSeq(playbooks, LAMBDA p : NamedLike(p, {<<"c","u","s","t","o","m">>, <<"o","b","j","e","c","t">>}, FALSE)))
    \o CategoryEntry(<<"A","u","d","i","t","s">>,
                     SelectSeq(playbooks, LAMBDA p : NamedLike(p, {<<"a","u","d","i","t">>}, TRUE)))
    \o CategoryEntry(<<"I","m","p","l","e","m","e","n","t","a","t","i","o","n">>,
                     SelectSeq(playbooks, LAMBDA p : NamedLike(p, {<<"i","m","p","l","e","m","e","n","t","a","t","i","o","n">>}, TRUE)))

\* what scanAllPlaybooks has written when it awaits the two fetches
ScanHeader == <<"#"," ","C","o","m","p","l","e","t","e"," ","P","l","a","y","b","o","o","k"," ","S","c","a","n","\n","\n">>

\* the report of the scan on the playbooks it found
ScanReport(playbookFolderDocs, allDocs, playbooks) ==
    ScanHeader
    \o <<"{chart}"," ","*","*","S","c","a","n"," ","R","e","s","u","l","t","s",":","*","*"," ","F","o","u","n","d"," ">> \o NatToDigits(Len(allDocs))
    \o <<" ","d","o","c","u","m","e","n","t","s"," ","i","n"," ","w","o","r","k","s","p","a","c","e",","," ">> \o NatToDigits(Len(playbookFolderDocs))
    \o <<" ","i","n"," ","p","l","a","y","b","o","o","k","s"," ","f","o","l","d","e","r","\n","\n">>
    \o <<"{target}"," ","*","*","P","l","a","y","b","o","o","k","s"," ","F","o","u","n","d",":","*","*"," ">> \o NatToDigits(Len(playbooks))
    \o <<" ","r","e","l","e","v","a","n","t"," ","p","l","a","y","b","o","o","k","s","\n","\n">>
    \o (IF Len(playbooks) > 0
        THEN <<"#","#"," ","{clipboard}"," ","A","v","a","i","l","a","b","l","e"," ","P","l","a","y","b","o","o","k","s","\n","\n">>
             \o Concat([k \in 1..Len(playbooks) |->
                           ScannedEntry(playbooks[k], analyzeDocument(playbooks[k]), k)])
             \o <<"#","#"," ","{chart}"," ","S","u","m","m","a","r","y"," ","b","y"," ","C","a","t","e","g","o","r","y","\n","\n">>
             \o CategorySummary(playbooks)
        ELSE <<"{warning}"," ","N","o"," ","p","l","a","y","b","o","o","k","s"," ","f","o","u","n","d","."," ","D","o","c","u","m","e","n","t","s"," ","s","c","a","n","n","e","d",":","\n","\n">>
             \o Concat([k \in 1..Len(Take(allDocs, NamedLimit)) |->
                   NatToDigits(k) \o <<"."," ","*","*">> \o allDocs[k].name \o <<"*","*"," ","(">>
                   \o OrElse(allDocs[k].folder.name, <<"U","n","k","n","o","w","n">>) \o <<")","\n">>])
             \o (IF Len(allDocs) > NamedLimit
                 THEN <<".",".","."," ","a","n","d"," ">> \o NatToDigits(Len(allDocs) - NamedLimit)
                      \o <<" ","m","o","r","e"," ","d","o","c","u","m","e","n","t","s","\n">>
                 ELSE <<>>))

scanAllPlaybooks(playbookFolderDocs, allDocs) ==
    Returned(ScanReport(playbookFolderDocs, allDocs,
                        IF Len(playbookFolderDocs) > 0 THEN playbookFolderDocs
                        ELSE SelectSeq(allDocs, LooksLikePlaybook)))

\* a || b || fallback, for string | null values a and b
FirstOrElse(a, b, fallback) ==
    IF Truthy(a) THEN a.v ELSE ValueOrElse(b, fallback)

\* the six questions recommend_playbooks answers for one playbook
PlaybookCard(d, analysis, index, suffix) ==
    <<"#","#"," ">> \o NatToDigits(index) \o <<"."," ">> \o d.name \o suffix \o <<"\n","\n">>
    \o <<"*","*","T","i","m","i","n","g"," ","Q","u","e","s","t","i","o","n",":","*","*"," ","\"","H","o","w"," ","l","o","n","g"," ","d","o","e","s"," ","t","h","e"," ","p","l","a","y","b","o","o","k"," ","i","m","p","l","e","m","e","n","t","a","t","i","o","n"," ","t","a","k","e","?","\"","\n">>
    \o <<"-"," ","*","*","A","n","s","w","e","r",":","*","*"," ">>
    \o FirstOrElse(analysis.timing, analysis.estimation,
                   <<"T","i","m","e","l","i","n","e"," ","n","o","t"," ","s","p","e","c","i","f","i","e","d"," ","i","n"," ","t","h","e"," ","p","l","a","y","b","o","o","k">>) \o <<"\n","\n">>
    \o <<"*","*","P","r","e","r","e","q","u","i","s","i","t","e","s",":","*","*"," ","\"","W","h","a","t"," ","p","l","a","y","b","o","o","k","s"," ","a","r","e"," ","p","r","e","r","e","q","u","i","s","i","t","e","s"," ","t","o"," ","c","o","m","p","l","e","t","e"," ","t","h","e"," ","e","n","t","i","r","e"," ","p","r","o","c","e","s","s","?","\"","\n">>
    \o <<"-"," ","*","*","A","n","s","w","e","r",":","*","*"," ">>
    \o (IF Len(analysis.prerequisites) > 0 THEN Join(analysis.prerequisites, <<","," ">>)
        ELSE <<"N","o"," ","s","p","e","c","i","f","i","c"," ","p","r","e","r","e","q","u","i","s","i","t","e","s"," ","m","e","n","t","i","o","n","e","d">>) \o <<"\n","\n">>
    \o <<"*","*","H","o","u","r","s",":","*","*"," ","\"","H","o","w"," ","m","a","n","y"," ","h","o","u","r","s"," ","w","i","l","l"," ","t","h","e"," ","i","m","p","l","e","m","e","n","t","a","t","i","o","n"," ","t","a","k","e","?","\"","\n">>
    \o <<"-"," ","*","*","A","n","s","w","e","r",":","*","*"," ">>
    \o FirstOrElse(analysis.hours, analysis.estimation, <<"H","o","u","r","s"," ","n","o","t"," ","s","p","e","c","i","f","i","e","d">>) \o <<"\n","\n">>
    \o <<"*","*","D","e","s","c","r","i","p","t","i","o","n",":","*","*"," ","\"","W","h","a","t"," ","i","s"," ","t","h","e"," ","p","l","a","y","b","o","o","k"," ","a","b","o","u","t","?","\"","\n">>
    \o <<"-"," ","*","*","A","n","s","w","e","r",":","*","*"," ">> \o OrElse(analysis.description, <<"D","e","s","c","r","i","p","t","i","o","n"," ","n","o","t"," ","a","v","a","i","l","a","b","l","e">>)
    \o <<"\n","\n">>
    \o <<"*","*","N","a","m","e",":","*","*"," ","\"","W","h","a","t"," ","i","s"," ","t","h","e"," ","n","a","m","e"," ","o","f"," ","t","h","e"," ","p","l","a","y","b","o","o","k","?","\"","\n">>
    \o <<"-"," ","*","*","A","n","s","w","e","r",":","*","*"," ">> \o d.name \o <<"\n","\n">>
    \o <<"*","*","U","R","L",":","*","*"," ","\"","W","h","a","t"," ","i","s"," ","t","h","e"," ","l","i","n","k"," ","t","o"," ","f","i","n","d"," ","t","h","e"," ","p","l","a","y","b","o","o","k","?","\"","\n">>
    \o <<"-"," ","*","*","A","n","s","w","e","r",":","*","*"," ">> \o <<"h","t","t","p","s",":","/","/","a","p","p",".","c","l","i","c","k","u","p",".","c","o","m","/">> \o config.workspaceId
    \o <<"/","d","o","c","s","/">> \o d.id \o <<"\n","\n">>
    \o <<"-","-","-","\n","\n">>

\* the cards of the playbooks ps
PlaybookCards(ps, suffix) ==
    Concat([k \in 1..Len(ps) |-> PlaybookCard(ps[k], analyzeDocument(ps[k]), k, suffix)])

\* whether the name of the document and a prerequisite contain one another
NamesPrerequisite(d, prereq) ==
    \/ includes(toLowerCase(d.name), toLowerCase(prereq))
    \/ includes(toLowerCase(prereq), toLowerCase(d.name))

\* the section on the prerequisites the analyses mention
PrerequisitesSection(ds, allPrerequisites) ==
    IF Len(allPrerequisites) = 0
    THEN <<"N","o"," ","p","r","e","r","e","q","u","i","s","i","t","e","s"," ","i","d","e","n","t","i","f","i","e","d"," ","f","o","r"," ","t","h","e"," ","r","e","c","o","m","m","e","n","d","e","d"," ","p","l","a","y","b","o","o","k","s",".","\n","\n">>
    ELSE IF \E k \in 1..Len(ds) : \E j \in 1..Len(allPrerequisites) :
                NamesPrerequisite(ds[k], allPrerequisites[j])
    THEN PlaybookCards(SelectSeq(ds, LAMBDA d : \E j \in 1..Len(allPrerequisites) :
                                                  NamesPrerequisite(d, allPrerequisites[j])),
                       <<" ","(","P","r","e","r","e","q","u","i","s","i","t","e",")">>)
    ELSE <<"N","o"," ","s","p","e","c","i","f","i","c"," ","p","r","e","r","e","q","u","i","s","i","t","e"," ","p","l","a","y","b","o","o","k","s"," ","f","o","u","n","d"," ","i","n"," ","t","h","e"," ","c","u","r","r","e","n","t"," ","f","o","l","d","e","r",".","\n","\n">>
         \o <<"*","*","M","e","n","t","i","o","n","e","d"," ","P","r","e","r","e","q","u","i","s","i","t","e","s",":","*","*","\n">>
         \o RequirementLines(allPrerequisites, <<"-"," ">>)

\* analyses.reduce((acc, { analysis }) => acc.concat(analysis.prerequisites), [])
AllPrerequisites(ps) ==
    Concat([k \in 1..Len(ps) |-> analyzeDocument(ps[k]).prerequisites])

\* the text recommendPlaybooks returns for the playbooks the search kept
RecommendationsFor(question, ds, relevantPlaybooks) ==
    IF Len(relevantPlaybooks) = 0
    THEN <<"N","o"," ","r","e","l","e","v","a","n","t"," ","p","l","a","y","b","o","o","k","s"," ","f","o","u","n","d"," ","f","o","r",":"," ","\"">> \o question.v
         \o <<"\"","\n","\n","A","v","a","i","l","a","b","l","e"," ","p","l","a","y","b","o","o","k","s"," ","i","n"," ","f","o","l","d","e","r",":","\n">>
         \o Join([k \in 1..Len(ds) |-> <<"-"," ">> \o ds[k].name], <<"\n">>)
    ELSE <<"#"," ","R","e","c","o","m","m","e","n","d","e","d"," ","P","l","a","y","b","o","o","k","s","\n","\n">>
         \o <<"*","*","Q","u","e","s","t","i","o","n",":","*","*"," ">> \o question.v \o <<"\n","\n">>
         \o PlaybookCards(relevantPlaybooks, <<>>)
         \o <<"#"," ","P","l","a","y","b","o","o","k","s"," ","P","r","e","r","e","q","u","i","s","i","t","e","s","\n","\n">>
         \o PrerequisitesSection(ds, AllPrerequisites(relevantPlaybooks))

\* the body of the try of recommendPlaybooks, p the promise of getDocs
Recommendations(question, p) ==
    IF Failed(p) THEN Thrown(p.value)
    ELSE IF ~question.some THEN Thrown(NoToLowerCase)
    ELSE Returned(RecommendationsFor(question, p.value, searchDocuments(p.value, question.v)))

\* the catch of recommendPlaybooks: an error becomes the text returned
CatchRecommendations(tried) ==
    IF tried.thrown
    THEN [thrown |-> FALSE, text |-> <<"E","r","r","o","r"," ","f","i","n","d","i","n","g"," ","p","l","a","y","b","o","o","k","s",":"," ">> \o tried.text,
          caught |-> Given(tried.text)]
    ELSE tried

recommendPlaybooks(question, p) == CatchRecommendations(Recommendations(question, p))

----------------------------------------------------------------------------
(* ClickUpPlaybooksMCP: the handler of CallToolRequestSchema *)

\* the parameters of a request: the arguments of a tool, the uri of a resource
NoArguments == [query |-> Missing, question |-> Missing, playbookId |-> Missing, uri |-> Missing]

ToolNames ==
    {<<"s","e","a","r","c","h","_","p","l","a","y","b","o","o","k","s">>, <<"g","e","t","_","p","l","a","y","b","o","o","k","_","e","s","t","i","m","a","t","i","o","n","s">>, <<"g","e","t","_","p","l","a","y","b","o","o","k","_","r","e","q","u","i","r","e","m","e","n","t","s">>,
     <<"a","s","k","_","p","l","a","y","b","o","o","k","_","q","u","e","s","t","i","o","n">>, <<"a","n","a","l","y","z","e","_","p","l","a","y","b","o","o","k">>, <<"t","e","s","t","_","a","p","i","_","c","o","n","n","e","c","t","i","o","n">>,
     <<"s","c","a","n","_","a","l","l","_","p","l","a","y","b","o","o","k","s">>, <<"r","e","c","o","m","m","e","n","d","_","p","l","a","y","b","o","o","k","s">>}


\* default: throw new Error(`Unknown tool: ${name}`)
UnknownTool(name) == Thrown(<<"U","n","k","n","o","w","n"," ","t","o","o","l",":"," ">> \o name)

\* the case of the switch: p the promise of getDocs(playbooksFolderId), q the
\* promise of getAllDocs (scan_all_playbooks); default throws
ToolMethod(name, args, p, q) ==
    CASE name = <<"s","e","a","r","c","h","_","p","l","a","y","b","o","o","k","s">> ->
            IF Failed(p) THEN Thrown(p.value) ELSE searchPlaybooks(args.query, p.value)
      [] name = <<"g","e","t","_","p","l","a","y","b","o","o","k","_","e","s","t","i","m","a","t","i","o","n","s">> ->
            IF Failed(p) THEN Thrown(p.value) ELSE getPlaybookEstimations(p.value)
      [] name = <<"g","e","t","_","p","l","a","y","b","o","o","k","_","r","e","q","u","i","r","e","m","e","n","t","s">> ->
            IF Failed(p) THEN Thrown(p.value) ELSE getPlaybookRequirements(p.value)
      [] name = <<"a","s","k","_","p","l","a","y","b","o","o","k","_","q","u","e","s","t","i","o","n">> ->
            IF Failed(p) THEN Thrown(p.value) ELSE askPlaybookQuestion(args.question, p.value)
      [] name = <<"a","n","a","l","y","z","e","_","p","l","a","y","b","o","o","k">> ->
            IF Failed(p) THEN Thrown(p.value) ELSE analyzePlaybook(args.playbookId, p.value)
      [] name = <<"t","e","s","t","_","a","p","i","_","c","o","n","n","e","c","t","i","o","n">> ->
            IF Failed(p) THEN OwnCatch(ConnectionHeader, p.value) ELSE testApiConnection(p.value)
      [] name = <<"s","c","a","n","_","a","l","l","_","p","l","a","y","b","o","o","k","s">> ->
            IF Failed(p) THEN OwnCatch(ScanHeader, p.value)
            ELSE IF Failed(q) THEN OwnCatch(ScanHeader, q.value)
            ELSE scanAllPlaybooks(p.value, q.value)
      [] name = <<"r","e","c","o","m","m","e","n","d","_","p","l","a","y","b","o","o","k","s">> -> recommendPlaybooks(args.question, p)
      [] OTHER -> UnknownTool(name)

\* the response of the handler, and a fault of the protocol
Result(text) == [kind |-> "result", content |-> <<[type |-> "text", text |-> text]>>]
Fault == [kind |-> "fault", content |-> <<>>]
NoResponse == [kind |-> "none", content |-> <<>>]

\* the handler without its catch: an error of the switch leaves the handler
CallToolRethrows(outcome) ==
    IF outcome.thrown THEN Fault ELSE Result(outcome.text)

\* the handler with its try and catch around the switch
CallToolRequestHandler(outcome) ==
    Result(IF outcome.thrown THEN <<"E","r","r","o","r",":"," ">> \o outcome.text ELSE outcome.text)

\* the error thrown while the tool ran, whoever caught it
ErrorThrown(outcome) == IF outcome.thrown THEN Given(outcome.text) ELSE outcome.caught

\* the server between two requests; method is the schema of the handler that
\* runs: "tools/call", "resources/list" or "resources/read"
NoTool == [method |-> "none", name |-> <<>>, args |-> NoArguments, phase |-> "idle",
           held |-> Pending, error |-> Missing]

\* the requests of the callers
Queries ==
    {Missing, Given(<<>>), Given(<<"*">>), Given(<<"a","l","l">>), Given(<<"O","v","e","r","a","l","l">>), Given(<<"i","n","s","t","a","l","l">>),
     Given(<<"a","u","d","i","t">>), Given(<<"z","z","z">>)}
AskedQuestions ==
    {Missing, Given(<<"w","h","a","t"," ","t","i","m","e"," ","i","s"," ","i","t">>), Given(<<"w","h","a","t"," ","d","o"," ","I"," ","n","e","e","d">>), Given(<<"h","o","w"," ","t","o"," ","a","u","d","i","t">>),
     Given(<<"h","u","b","s","p","o","t"," ","a","u","d","i","t">>), Given(<<"z","z","z">>)}
PlaybookIds == {Missing, Given(<<"1","0","1">>), Given(<<"1","0","2">>), Given(<<"9","9","9">>)}
RecommendQuestions == {Missing, Given(<<"h","u","b","s","p","o","t"," ","a","u","d","i","t">>), Given(<<"s","e","t","u","p">>), Given(<<"z","z","z">>)}

Requests ==
    {[name |-> <<"s","e","a","r","c","h","_","p","l","a","y","b","o","o","k","s">>, args |-> [NoArguments EXCEPT !.query = x]] : x \in Queries}
    \cup {[name |-> <<"a","s","k","_","p","l","a","y","b","o","o","k","_","q","u","e","s","t","i","o","n">>, args |-> [NoArguments EXCEPT !.question = x]] :
             x \in AskedQuestions}
    \cup {[name |-> <<"a","n","a","l","y","z","e","_","p","l","a","y","b","o","o","k">>, args |-> [NoArguments EXCEPT !.playbookId = x]] :
             x \in PlaybookIds}
    \cup {[name |-> <<"r","e","c","o","m","m","e","n","d","_","p","l","a","y","b","o","o","k","s">>, args |-> [NoArguments EXCEPT !.question = x]] :
             x \in RecommendQuestions}
    \cup {[name |-> n, args |-> NoArguments] :
             n \in {<<"g","e","t","_","p","l","a","y","b","o","o","k","_","e","s","t","i","m","a","t","i","o","n","s">>, <<"g","e","t","_","p","l","a","y","b","o","o","k","_","r","e","q","u","i","r","e","m","e","n","t","s">>,
                    <<"t","e","s","t","_","a","p","i","_","c","o","n","n","e","c","t","i","o","n">>, <<"s","c","a","n","_","a","l","l","_","p","l","a","y","b","o","o","k","s">>, <<"d","e","l","e","t","e","_","p","l","a","y","b","o","o","k">>}}

\* the handler answers, outcome what the case of the switch came to
Answer(outcome) ==
    /\ response' = CallToolRequestHandler(outcome)
    /\ tool' = [tool EXCEPT !.phase = "idle", !.error = ErrorThrown(outcome)]

\* a request arrives: every tool of the switch begins by awaiting
\* getDocs(playbooksFolderId); the default case throws at once
CallTool ==
    /\ tool.phase = "idle"
    /\ pc = "idle"
    /\ \E request \in Requests :
          IF request.name \in ToolNames
          THEN /\ tool' = [NoTool EXCEPT !.method = "tools/call", !.name = request.name,
                                         !.args = request.args, !.phase = "folder"]
               /\ response' = NoResponse
               /\ Enter("getDocs", playbooksFolderId, <<>>)
          ELSE /\ response' = CallToolRequestHandler(UnknownTool(request.name))
               /\ tool' = [NoTool EXCEPT !.method = "tools/call", !.name = request.name,
                                         !.args = request.args,
                                         !.error = ErrorThrown(UnknownTool(request.name))]
               /\ UNCHANGED <<pc, call, listing, acc, net, ret, log>>
    /\ UNCHANGED <<config, remote, analyzerVars>>

\* scanAllPlaybooks goes on from getDocs to getAllDocs
ScanWorkspace ==
    /\ tool.phase = "folder"
    /\ tool.name = <<"s","c","a","n","_","a","l","l","_","p","l","a","y","b","o","o","k","s">>
    /\ pc = "done"
    /\ ~Failed(ret)
    /\ tool' = [tool EXCEPT !.phase = "workspace", !.held = ret]
    /\ Enter("getAllDocs", <<>>, log)
    /\ UNCHANGED <<config, remote, analyzerVars, response>>

\* the fetches of the tool are settled: the handler responds
Respond ==
    /\ pc = "done"
    /\ tool.method = "tools/call"
    /\ \/ tool.phase = "workspace"
       \/ tool.phase = "folder" /\ (tool.name # <<"s","c","a","n","_","a","l","l","_","p","l","a","y","b","o","o","k","s">> \/ Failed(ret))
    /\ Answer(ToolMethod(tool.name, tool.args,
                         IF tool.phase = "workspace" THEN tool.held ELSE ret,
                         IF tool.phase = "workspace" THEN ret ELSE Pending))
    /\ pc' = "idle"
    /\ UNCHANGED <<config, remote, call, listing, acc, net, ret, log, analyzerVars>>

----------------------------------------------------------------------------
(* ClickUpPlaybooksMCP: the handlers of ListResourcesRequestSchema and of    *)
(* ReadResourceRequestSchema                                                *)

UriPrefix == <<"c","l","i","c","k","u","p",":","/","/","p","l","a","y","b","o","o","k","/">>

\* the entry of the resource list for the document d
Resource(d) ==
    [uri |-> UriPrefix \o d.id, name |-> d.name,
     description |-> <<"P","l","a","y","b","o","o","k",":"," ">> \o d.name, mimeType |-> <<"t","e","x","t","/","p","l","a","i","n">>]

\* what the handlers return: the resource list, the contents of a resource,
\* and an error thrown out of the handler
ResourceList(ds) == [kind |-> "resources", content |-> [k \in 1..Len(ds) |-> Resource(ds[k])]]
ResourceContents(uri, text) ==
    [kind |-> "contents", content |-> <<[uri |-> uri, mimeType |-> <<"t","e","x","t","/","p","l","a","i","n">>, text |-> text]>>]
ProtocolError(message) == [kind |-> "fault", content |-> message]

\* the handler of ListResourcesRequestSchema after getDocs: p its promise
ListResourcesRequestHandler(p) ==
    IF Failed(p) THEN ResourceList(<<>>) ELSE ResourceList(p.value)

\* the same with the prefix taken without its last slash
DocIdOfFromSlash(uri) == Sub(uri, Len(UriPrefix), Len(uri) + 1)

\* uri.replace('clickup://playbook/', '') for a uri that starts with it
DocIdOf(uri) == Sub(uri, Len(UriPrefix) + 1, Len(uri) + 1)

\* the text of the resource for the document d
ResourceText(d, analysis) ==
    <<"#"," ">> \o d.name \o <<"\n","\n">>
    \o <<"*","*","D","e","s","c","r","i","p","t","i","o","n",":","*","*"," ">> \o OrElse(analysis.description, <<"N","o"," ","d","e","s","c","r","i","p","t","i","o","n"," ","a","v","a","i","l","a","b","l","e">>) \o <<"\n","\n">>
    \o (IF Truthy(analysis.estimation)
        THEN <<"*","*","E","s","t","i","m","a","t","i","o","n",":","*","*"," ">> \o analysis.estimation.v \o <<"\n","\n">>
        ELSE <<>>)
    \o (IF Len(analysis.requirements) > 0
        THEN <<"*","*","R","e","q","u","i","r","e","m","e","n","t","s",":","*","*","\n">> \o RequirementLines(analysis.requirements, <<"-"," ">>) \o <<"\n">>
        ELSE <<>>)
    \o (IF Len(analysis.tags) > 0
        THEN <<"*","*","T","a","g","s",":","*","*"," ">> \o Join(analysis.tags, <<","," ">>) \o <<"\n","\n">>
        ELSE <<>>)
    \o <<"*","*","C","o","m","p","l","e","x","i","t","y",":","*","*"," ">> \o ComplexityText[analysis.complexity] \o <<"\n","\n">>
    \o <<"*","*","O","r","i","g","i","n","a","l"," ","C","o","n","t","e","n","t",":","*","*","\n">> \o d.content

\* the catch returning the error as a text, as the tool handler does
ReadFailureReturned(message) == ResourceContents(<<>>, <<"E","r","r","o","r",":"," ">> \o message)

\* the catch of the read handler: throw new Error(`Failed to read resource: ${message}`)
ReadFailure(message) == ProtocolError(<<"F","a","i","l","e","d"," ","t","o"," ","r","e","a","d"," ","r","e","s","o","u","r","c","e",":"," ">> \o message)

\* the document at position k of the fetched ones rendered, 0 for none found
ContentsOfFound(uri, ds, k) ==
    IF k = 0 THEN ReadFailure(<<"D","o","c","u","m","e","n","t"," ","n","o","t"," ","f","o","u","n","d">>)
    ELSE ResourceContents(uri, ResourceText(ds[k], analyzeDocument(ds[k])))

\* the handler of ReadResourceRequestSchema after getDocs: p its promise
ReadResourceRequestHandler(uri, p) ==
    IF Failed(p) THEN ReadFailure(p.value)
    ELSE ContentsOfFound(uri, p.value, FindById(p.value, Given(DocIdOf(uri))))

\* the uris asked for: of listed documents, of no document, of another
\* scheme, and the prefix alone
Uris ==
    {UriPrefix \o <<"1","0","1">>, UriPrefix \o <<"1","0","2">>, UriPrefix \o <<"9","9","9">>,
     <<"h","t","t","p","s",":","/","/","p","l","a","y","b","o","o","k","/","1","0","1">>, UriPrefix}

\* a request for the resource list arrives: the handler awaits getDocs
ListResources ==
    /\ tool.phase = "idle"
    /\ pc = "idle"
    /\ tool' = [NoTool EXCEPT !.method = "resources/list", !.phase = "folder"]
    /\ response' = NoResponse
    /\ Enter("getDocs", playbooksFolderId, <<>>)
    /\ UNCHANGED <<config, remote, analyzerVars>>

\* a request to read a resource arrives: a uri of another scheme throws at
\* once, otherwise the handler awaits getDocs
ReadResource ==
    /\ tool.phase = "idle"
    /\ pc = "idle"
    /\ \E uri \in Uris :
          IF startsWith(uri, UriPrefix)
          THEN /\ tool' = [NoTool EXCEPT !.method = "resources/read", !.args.uri = Given(uri),
                                         !.phase = "folder"]
               /\ response' = NoResponse
               /\ Enter("getDocs", playbooksFolderId, <<>>)
          ELSE /\ tool' = [NoTool EXCEPT !.method = "resources/read", !.args.uri = Given(uri),
                                         !.error = Given(<<"I","n","v","a","l","i","d"," ","r","e","s","o","u","r","c","e"," ","U","R","I">>)]
               /\ response' = ProtocolError(<<"I","n","v","a","l","i","d"," ","r","e","s","o","u","r","c","e"," ","U","R","I">>)
               /\ UNCHANGED <<pc, call, listing, acc, net, ret, log>>
    /\ UNCHANGED <<config, remote, analyzerVars>>

\* getDocs is settled: the resource handler that awaited it returns
ResourceReply ==
    /\ pc = "done"
    /\ tool.phase = "folder"
    /\ tool.method \in {"resources/list", "resources/read"}
    /\ response' = IF tool.method = "resources/list"
                   THEN ListResourcesRequestHandler(ret)
                   ELSE ReadResourceRequestHandler(tool.args.uri.v, ret)
    /\ tool' = [tool EXCEPT !.phase = "idle"]
    /\ pc' = "idle"
    /\ UNCHANGED <<config, remote, call, listing, acc, net, ret, log, analyzerVars>>

----------------------------------------------------------------------------
(* The lines written with console.error. A line is the sequence of the texts *)
(* of the arguments of one call: the message, then the texts that an object  *)
(* argument holds, in the order of its fields.                              *)

\* {id, name, parent} of a listed document, as the response and sample lines
\* show it
Shown(d) == <<d.id, d.name, d.parent.id, d.parent.name>>

\* an Error as console.error shows it: the message that makeRequest throws
\* for a response that is not OK, up to the status of the response
ErrorShown == <<"C","l","i","c","k","U","p"," ","A","P","I"," ","e","r","r","o","r",":"," ">>

\* the line of the outer catch of a client method
CatchLine(op, message) ==
    <<CASE op = "getDocs" -> <<"[","D","E","B","U","G","]"," ","E","r","r","o","r"," ","g","e","t","t","i","n","g"," ","d","o","c","s",":">>
        [] op = "getAllDocs" -> <<"[","D","E","B","U","G","]"," ","E","r","r","o","r"," ","g","e","t","t","i","n","g"," ","a","l","l"," ","d","o","c","s",":">>
        [] op = "getDocsByParentPageId" -> <<"[","D","E","B","U","G","]"," ","E","r","r","o","r"," ","g","e","t","t","i","n","g"," ","d","o","c","s"," ","b","y"," ","p","a","r","e","n","t"," ","p","a","g","e"," ","I","D",":">>,
      message>>

\* the line written before the listing request is sent
EntryLine(op, arg) ==
    CASE op = "getDocs" ->
            <<<<"[","D","E","B","U","G","]"," ","G","e","t","t","i","n","g"," ","d","o","c","s"," ","f","r","o","m"," ","w","o","r","k","s","p","a","c","e",":"," ">> \o config.workspaceId
              \o <<","," ","f","o","l","d","e","r",":"," ">> \o arg>>
      [] op = "getAllDocs" ->
            <<<<"[","D","E","B","U","G","]"," ","G","e","t","t","i","n","g"," ","A","L","L"," ","d","o","c","s"," ","f","r","o","m"," ","w","o","r","k","s","p","a","c","e",":"," ">> \o config.workspaceId>>
      [] op = "getDocsByParentPageId" ->
            <<<<"[","D","E","B","U","G","]"," ","S","e","a","r","c","h","i","n","g"," ","f","o","r"," ","d","o","c","s"," ","w","i","t","h"," ","p","a","r","e","n","t","_","p","a","g","e","_","i","d",":"," ">> \o arg>>

\* the lines written when the listing was answered, before the loop
ListingLines(op, arg, listed, kept) ==
    CASE op = "getDocs" ->
            << <<<<"[","D","E","B","U","G","]"," ","A","P","I"," ","R","e","s","p","o","n","s","e",":">>, NatToDigits(Len(listed))>>
                  \o Concat([k \in 1..Len(listed) |-> Shown(listed[k])]),
               <<<<"[","D","E","B","U","G","]"," ","A","P","I"," ","r","e","t","u","r","n","e","d"," ">> \o NatToDigits(Len(kept))
                 \o <<" ","d","o","c","s"," ","f","o","r"," ","p","a","r","e","n","t","_","i","d"," ">> \o arg>> >>
            \o (IF Len(kept) > 0
                THEN << <<<<"[","D","E","B","U","G","]"," ","S","a","m","p","l","e"," ","d","o","c","s",":">>>>
                        \o Concat([k \in 1..Len(Take(kept, ShownLimit)) |-> Shown(kept[k])]) >>
                ELSE <<>>)
      [] op = "getAllDocs" ->
            << <<<<"[","D","E","B","U","G","]"," ","A","P","I"," ","R","e","s","p","o","n","s","e",":">>, NatToDigits(Len(listed))>>
                  \o Concat([k \in 1..Len(listed) |-> Shown(listed[k])]),
               <<<<"[","D","E","B","U","G","]"," ","P","r","o","c","e","s","s","i","n","g"," ">> \o NatToDigits(Len(kept)) \o <<" ","d","o","c","u","m","e","n","t","s">>>> >>
      [] op = "getDocsByParentPageId" ->
            << <<<<"[","D","E","B","U","G","]"," ","F","o","u","n","d"," ">> \o NatToDigits(Len(kept))
                 \o <<" ","d","o","c","s"," ","w","i","t","h"," ","p","a","r","e","n","t","_","p","a","g","e","_","i","d"," ">> \o arg>> >>

\* the lines of the loop body for the document d: up to the pages request
\* while it is pending, and to the end of the body when the content came with
\* the listing (direct), the pages were answered, or the request failed
DocLines(op, d, how) ==
    (CASE op = "getDocs" ->
             << <<<<"[","D","E","B","U","G","]"," ","G","e","t","t","i","n","g"," ","p","a","g","e","s"," ","f","o","r"," ","d","o","c",":"," ">> \o d.id \o <<","," ","u","s","i","n","g"," ","d","o","c","_","i","d",":"," ">>
                  \o docIdToUse(d)>> >>
       [] op = "getAllDocs" ->
             << <<<<"[","D","E","B","U","G","]"," ","G","e","t","t","i","n","g"," ","p","a","g","e","s"," ","f","o","r"," ","d","o","c",":"," ">> \o d.id \o <<" ","(">> \o d.name \o <<")">>>> >>
       [] op = "getDocsByParentPageId" -> <<>>)
    \o (IF how = "direct" /\ op = "getDocs"
        THEN << <<<<"[","D","E","B","U","G","]"," ","U","s","i","n","g"," ","d","i","r","e","c","t"," ","c","o","n","t","e","n","t"," ","f","r","o","m"," ","d","o","c"," ","r","e","s","p","o","n","s","e",","," ","l","e","n","g","t","h",":"," ">>
                  \o NatToDigits(Len(d.content))>> >>
        ELSE <<>>)
    \o (IF how = "answered" /\ op # "getDocsByParentPageId"
        THEN << <<<<"[","D","E","B","U","G","]"," ","D","o","c"," ">> \o (IF op = "getDocs" THEN docIdToUse(d) ELSE d.id)
                  \o <<" ","p","a","g","e","s",":">>, NatToDigits(Len(d.pages))>>
                \o (IF Len(d.pages) > 0 THEN <<<<"c","o","n","t","e","n","t">>>> ELSE <<>>) >>
        ELSE <<>>)
    \o (IF how \in {"direct", "answered"}
        THEN << <<<<"[","D","E","B","U","G","]"," ","A","d","d","e","d"," ","d","o","c",":"," ">> \o d.name \o <<","," ","c","o","n","t","e","n","t"," ","l","e","n","g","t","h",":"," ">>
                  \o NatToDigits(Len(IF how = "direct" THEN d.content ELSE PagesContent(d.pages)))
                  \o (IF op = "getAllDocs" THEN <<","," ","f","o","l","d","e","r",":"," ">> \o d.parent.id ELSE <<>>)>> >>
        ELSE <<>>)
    \o (IF how = "failed"
        THEN << <<(IF op = "getDocsByParentPageId"
                   THEN <<"[","D","E","B","U","G","]"," ","E","r","r","o","r"," ","p","r","o","c","e","s","s","i","n","g"," ","d","o","c"," ">>
                   ELSE <<"[","D","E","B","U","G","]"," ","E","r","r","o","r"," ","g","e","t","t","i","n","g"," ","p","a","g","e","s"," ","f","o","r"," ","d","o","c"," ">>) \o d.id \o <<":">>,
                  ErrorShown>> >>
        ELSE <<>>)

\* the lines of the loop over the documents rest, with n documents pushed so
\* far and the exchange of the next pages request at position k of the
\* exchanges sent
RECURSIVE LoopLines(_, _, _, _, _)
LoopLines(op, rest, n, sent, k) ==
    IF rest = <<>>
    THEN IF op = "getDocsByParentPageId" THEN <<>>
         ELSE << <<<<"[","D","E","B","U","G","]"," ","F","i","n","a","l"," ","d","o","c","s"," ","c","o","u","n","t",":"," ">> \o NatToDigits(n)>> >>
    ELSE IF HasDirectContent(op, Head(rest))
    THEN DocLines(op, Head(rest), "direct") \o LoopLines(op, Tail(rest), n + 1, sent, k)
    ELSE IF k > Len(sent) \/ sent[k].status = "pending"
    THEN DocLines(op, Head(rest), "pending")
    ELSE DocLines(op, Head(rest), sent[k].status)
         \o LoopLines(op, Tail(rest),
                      IF sent[k].status = "failed" /\ op = "getDocsByParentPageId"
                      THEN n ELSE n + 1,
                      sent, k + 1)

\* the lines a client method has written, its listing request being at
\* position k of the exchanges sent
FetchLines(op, arg, sent, k) ==
    IF config.workspaceId = <<>>
    THEN <<CatchLine(op, <<"W","o","r","k","s","p","a","c","e"," ","I","D"," ","i","s"," ","r","e","q","u","i","r","e","d"," ","f","o","r"," ","d","o","c","s"," ","A","P","I">>)>>
    ELSE IF k > Len(sent) THEN <<>>
    ELSE <<EntryLine(op, arg)>>
         \o (CASE sent[k].status = "pending" -> <<>>
               [] sent[k].status = "failed" -> <<CatchLine(op, ErrorShown)>>
               [] sent[k].status = "answered" ->
                     ListingLines(op, arg, ListedDocs(op, arg),
                                  filteredDocs(op, arg, ListedDocs(op, arg)))
                     \o LoopLines(op, filteredDocs(op, arg, ListedDocs(op, arg)), 0, sent, k + 1))

\* {id, name, contentLength} of the sample line of searchPlaybooks
Sampled(d) == <<d.id, d.name, NatToDigits(Len(d.content))>>

\* the lines a handler writes itself once getDocs has returned ds
HandlerLines(method, name, args, ds) ==
    CASE method = "tools/call" /\ name = <<"s","e","a","r","c","h","_","p","l","a","y","b","o","o","k","s">> ->
            << <<<<"[","D","E","B","U","G","]"," ","R","e","t","r","i","e","v","e","d"," ">> \o NatToDigits(Len(ds)) \o <<" ","d","o","c","s"," ","f","r","o","m"," ","f","o","l","d","e","r"," ">>
                 \o playbooksFolderId>> >>
            \o (IF Len(ds) > 0
                THEN << <<<<"[","D","E","B","U","G","]"," ","S","a","m","p","l","e"," ","d","o","c","s",":">>>>
                        \o Concat([k \in 1..Len(Take(ds, ShownLimit)) |-> Sampled(ds[k])]) >>
                ELSE <<>>)
            \o (IF WantsAll(args.query) THEN <<>>
                ELSE << <<<<"[","D","E","B","U","G","]"," ","S","e","a","r","c","h"," ","f","o","r"," ","\"">> \o args.query.v \o <<"\""," ","r","e","t","u","r","n","e","d"," ">>
                          \o NatToDigits(Len(searchDocuments(ds, args.query.v)))
                          \o <<" ","r","e","s","u","l","t","s">>>> >>)
      [] method = "tools/call" /\ name = <<"r","e","c","o","m","m","e","n","d","_","p","l","a","y","b","o","o","k","s">> ->
            << <<<<"[","D","E","B","U","G","]"," ","F","o","u","n","d"," ">> \o NatToDigits(Len(ds))
                 \o <<" ","d","o","c","s"," ","i","n"," ","P","l","a","y","b","o","o","k","s"," ","I","n","s","t","r","u","c","t","i","o","n","s"," ","f","o","l","d","e","r">>>> >>
      [] OTHER -> <<>>

----------------------------------------------------------------------------
(* Inputs and specifications of the analyzer *)

NoDoc == [name |-> <<>>, content |-> <<>>]
NoResult == [op |-> "none"]

\* n copies of the word w, each followed by a space
Repeat(w, n) == Concat([k \in 1..n |-> w \o <<" ">>])

\* s padded with a letter no indicator contains, up to length n
PadTo(s, n) == s \o [k \in 1..(n - Len(s)) |-> "z"]

\* the largest number of indicator words of one bucket in a generated content
MaxIndicatorCount == 2

\* the lengths the generated contents are padded to: none, and both sides of
\* the two thresholds of the length bonus
PaddedLengths ==
    {0, MediumLengthThreshold, MediumLengthThreshold + 1,
     HighLengthThreshold, HighLengthThreshold + 1}

ComplexityDocs ==
    {[name |-> <<"D","o","c">>,
      content |-> PadTo(Repeat(<<"I","n","t","e","g","r","a","t","i","o","n">>, h) \o Repeat(<<"s","e","t","u","p">>, m)
                        \o Repeat(<<"s","i","m","p","l","e">>, l), n)] :
        h \in 0..MaxIndicatorCount, m \in 0..MaxIndicatorCount,
        l \in 0..MaxIndicatorCount, n \in PaddedLengths}

AnalyzerIdle == doc = NoDoc /\ docs = <<>> /\ query = <<>> /\ out = NoResult
NoCall == [op |-> "none", arg |-> <<>>]

\* the configuration the server constructs the client with:
\* CLICKUP_WORKSPACE_ID || '2285500'
ServerConfig == [apiToken |-> <<"p","k","_","s","e","c","r","e","t">>, workspaceId |-> <<"2","2","8","5","5","0","0">>]

\* the client at rest
ClientAtRest ==
    /\ pc = "idle" /\ call = NoCall /\ listing = <<>> /\ acc = <<>>
    /\ net = NoRequest /\ ret = Pending /\ log = <<>>

ClientIdle == config = ServerConfig /\ remote = <<>> /\ ClientAtRest
ServerIdle == tool = NoTool /\ response = NoResponse

InitComplexity ==
    /\ doc \in ComplexityDocs
    /\ docs = <<>> /\ query = <<>> /\ out = NoResult
    /\ ClientIdle /\ ServerIdle

\* analyzeDocument's call of assessComplexity on the lower-cased content
AssessComplexity ==
    /\ out = NoResult
    /\ out' = [op |-> "assessComplexity", v |-> assessComplexity(toLowerCase(doc.content))]
    /\ UNCHANGED <<doc, docs, query, clientVars, serverVars>>

NextComplexity == AssessComplexity

SpecComplexity == InitComplexity /\ [][NextComplexity]_vars

\* contents for the length bonus: up to MaxKeywords indicator words of each
\* bucket, padded to lengths on both sides of and between the thresholds
MaxKeywords == 1

BonusLengths == PaddedLengths \cup {250, 1200}

BonusDocs ==
    {[name |-> <<"D","o","c">>,
      content |-> PadTo(Repeat(<<"M","i","g","r","a","t","i","o","n">>, h) \o Repeat(<<"c","o","n","f","i","g","u","r","a","t","i","o","n">>, m)
                        \o Repeat(<<"q","u","i","c","k">>, l), n)] :
        h \in 0..MaxKeywords, m \in 0..MaxKeywords, l \in 0..MaxKeywords, n \in BonusLengths}

InitBonus ==
    /\ doc \in BonusDocs
    /\ docs = <<>> /\ query = <<>> /\ out = NoResult
    /\ ClientIdle /\ ServerIdle

NextBonus == AssessComplexity

SpecBonus == InitBonus /\ [][NextBonus]_vars


\* ClickUpDoc values for the search: scores 3, 2, 2, 0 and 3 for the query
\* "audit hubspot"
SearchDocs ==
    {[id |-> <<"d","1">>, name |-> <<"A","l","p","h","a">>, content |-> <<"a","u","d","i","t"," ","a","u","d","i","t"," ","a","u","d","i","t">>, date_updated |-> <<"3">>],
     [id |-> <<"d","2">>, name |-> <<"B","e","t","a">>, content |-> <<"A","u","d","i","t"," ","o","f"," ","H","u","b","S","p","o","t">>, date_updated |-> <<"1">>],
     [id |-> <<"d","3">>, name |-> <<"H","u","b","S","p","o","t"," ","A","u","d","i","t">>, content |-> <<>>, date_updated |-> <<"2">>],
     [id |-> <<"d","4">>, name |-> <<"G","a","m","m","a">>, content |-> <<"p","r","o","o","f"," ","o","f"," ","w","o","r","k">>, date_updated |-> <<"4">>],
     [id |-> <<"d","5">>, name |-> <<"Z","e","t","a"," ","a","u","d","i","t">>, content |-> <<"a","u","d","i","t","\n","a","u","d","i","t">>, date_updated |-> <<"0">>]}

SearchQueries ==
    {<<"a","u","d","i","t"," ","h","u","b","s","p","o","t">>, <<"A","U","D","I","T">>, <<" "," ","h","u","b","s","p","o","t","\t","a","u","d","i","t"," ">>, <<>>, <<"o","f">>, <<"a","n"," ","o","f">>,
     <<"o","f"," ","h","u","b","s","p","o","t">>, <<"h","u","b","s","p","o","t"," ","h","u","b","s","p","o","t">>, <<"z","z","z">>}

\* the longest document list handed to the analyzer
MaxDocs == 3

\* the lists of at most n distinct elements of S
DistinctSeqs(S, n) ==
    {s \in UNION {[1..k -> S] : k \in 0..n} :
        \A i, j \in DOMAIN s : i # j => s[i] # s[j]}

InitSearch ==
    /\ doc = NoDoc
    /\ docs \in DistinctSeqs(SearchDocs, MaxDocs)
    /\ query \in SearchQueries
    /\ out = NoResult
    /\ ClientIdle /\ ServerIdle

SearchDocuments ==
    /\ out = NoResult
    /\ out' = [op |-> "searchDocuments", v |-> searchDocuments(docs, query)]
    /\ UNCHANGED <<doc, docs, query, clientVars, serverVars>>

NextSearch == SearchDocuments

SpecSearch == InitSearch /\ [][NextSearch]_vars

\* ClickUpDoc values for the answers: an estimation and requirements in the
\* content, an estimation in the title only, a labelled summary, and nothing
AnswerDocs ==
    {[id |-> <<"a","1">>, name |-> <<"H","u","b","S","p","o","t"," ","A","u","d","i","t"," ","P","l","a","y","b","o","o","k">>,
      content |-> <<"R","e","q","u","i","r","e","m","e","n","t","s",":","\n","-"," ","a","c","c","e","s","s"," ","t","o"," ","H","u","b","S","p","o","t","\n","E","s","t","i","m","a","t","e",":"," ","3"," ","d","a","y","s","\n","T","h","i","s"," ","p","l","a","y","b","o","o","k"," ","c","o","v","e","r","s"," ","a"," ","f","u","l","l"," ","a","u","d","i","t"," ","o","f"," ","H","u","b","S","p","o","t"," ","c","o","n","f","i","g","u","r","a","t","i","o","n",".">>],
     [id |-> <<"a","2">>, name |-> <<"D","e","p","l","o","y"," ","[","2","h","]">>, content |-> <<>>],
     [id |-> <<"a","3">>, name |-> <<"T","i","m","e"," ","t","r","a","c","k","i","n","g">>,
      content |-> <<"S","u","m","m","a","r","y",":"," ","h","o","w"," ","t","i","m","e"," ","i","s"," ","t","r","a","c","k","e","d","\n","T","a","g","s",":"," ","a","u","d","i","t","\n","5"," ","p","o","i","n","t","s">>],
     [id |-> <<"a","4">>, name |-> <<"M","i","s","c">>, content |-> <<"z","z","z">>]}

Questions ==
    {<<"w","h","a","t"," ","t","i","m","e"," ","i","s"," ","i","t">>, <<"H","o","w"," ","l","o","n","g","?"," ","E","s","t","i","m","a","t","e">>, <<"w","h","a","t"," ","d","o"," ","I"," ","n","e","e","d">>,
     <<"r","e","q","u","i","r","e","m","e","n","t"," ","d","u","r","a","t","i","o","n">>, <<"P","r","e","r","e","q","u","i","s","i","t","e">>, <<"w","h","a","t"," ","i","s"," ","h","u","b","s","p","o","t">>,
     <<"d","e","s","c","r","i","p","t","i","o","n"," ","o","f"," ","a","u","d","i","t">>, <<"h","o","w">>, <<"h","u","b","s","p","o","t"," ","a","u","d","i","t">>, <<"z","z","z"," ","q","q","q">>, <<>>, <<"T","I","M","E">>}

\* the longest document list handed to answerQuestion
MaxAnswerDocs == 2

InitAnswer ==
    /\ doc = NoDoc
    /\ docs \in DistinctSeqs(AnswerDocs, MaxAnswerDocs)
    /\ query \in Questions
    /\ out = NoResult
    /\ ClientIdle /\ ServerIdle

AnswerQuestion ==
    /\ out = NoResult
    /\ out' = [op |-> "answerQuestion", v |-> answerQuestion(docs, query)]
    /\ UNCHANGED <<doc, docs, query, clientVars, serverVars>>

NextAnswer == AnswerQuestion

SpecAnswer == InitAnswer /\ [][NextAnswer]_vars

\* the texts put before and after "5 points" in an analysed content
PointPrefixes ==
    {<<>>, <<"1">>, <<"2",".">>, <<"s","p"," ","3",","," ">>, <<"S","t","o","r","y"," ","p","o","i","n","t","s",":"," ","2","\n">>, <<"e","s","t",":"," ">>,
     <<"t","a","k","e","s"," ","2"," ","d","a","y","s",","," ">>, <<"S","P"," ">>, <<".">>, <<"x">>}

PointSuffixes ==
    {<<>>, <<"x">>, <<"_">>, <<" ","t","o","t","a","l">>, <<"\n","3"," ","h","o","u","r","s">>, <<":"," ","3">>, <<" ","5"," ","p","o","i","n","t","s">>, <<"!">>, <<"s">>}

PointMentions == {<<"5"," ","p","o","i","n","t","s">>, <<"5"," ","P","o","i","n","t","s">>, <<"5"," ","p","o","i","n","t">>}

AnalyzedDocs ==
    {[id |-> <<"p">>, name |-> n, content |-> before \o mention \o after] :
        n \in {<<"D","o","c">>, <<"E","s","t","i","m","a","t","e"," ","[","3","h","]">>}, before \in PointPrefixes,
        mention \in PointMentions, after \in PointSuffixes}

InitAnalyze ==
    /\ doc \in AnalyzedDocs
    /\ docs = <<>> /\ query = <<>> /\ out = NoResult
    /\ ClientIdle /\ ServerIdle

AnalyzeDocument ==
    /\ out = NoResult
    /\ out' = [op |-> "analyzeDocument", v |-> analyzeDocument(doc)]
    /\ UNCHANGED <<doc, docs, query, clientVars, serverVars>>

NextAnalyze == AnalyzeDocument

SpecAnalyze == InitAnalyze /\ [][NextAnalyze]_vars

----------------------------------------------------------------------------
(* The client on its own *)

\* a client constructed with and without a workspace id
ClientConfigs == {ServerConfig, [apiToken |-> <<"p","k","_","s","e","c","r","e","t">>, workspaceId |-> <<>>]}

InitFetch ==
    /\ AnalyzerIdle
    /\ config \in ClientConfigs
    /\ remote \in Workspaces
    /\ ClientAtRest
    /\ ServerIdle

NextFetch == Invoke \/ ListingReply \/ PagesReply

SpecFetch == InitFetch /\ [][NextFetch]_vars

----------------------------------------------------------------------------
(* The server constructed with one of several tokens *)

\* values of CLICKUP_API_TOKEN that the constructor accepts
ApiTokens == {<<"p","k","_","s","e","c","r","e","t">>, <<"p","k","_","9">>}
TokenConfigs == {[ServerConfig EXCEPT !.apiToken = t] : t \in ApiTokens}


----------------------------------------------------------------------------
(* Inputs and specification of the field extractors *)

\* one phrase for each of the six estimation patterns, in the order of the
\* list: a labelled story-point count, a count before "sp", a labelled
\* duration, a duration before its label, a takes-phrase, a bare duration
EstimationPhrases ==
    <<<<"S","t","o","r","y"," ","p","o","i","n","t","s",":"," ","5">>, <<"7"," ","s","p">>, <<"E","s","t","i","m","a","t","e",":"," ","3"," ","d","a","y","s">>, <<"4"," ","h","o","u","r","s"," ","e","f","f","o","r","t">>,
      <<"t","a","k","e","s"," ","a","b","o","u","t"," ","2"," ","w","e","e","k","s">>, <<"5"," ","d","a","y","s">>>>

\* the phrases numbered by order, as sentences of one text
Sentences(phrases, order) == Join([k \in 1..Len(order) |-> phrases[order[k]]], <<"."," ">>)

\* the most phrases put into one generated content
MaxPhrases == 3

EstimationDocs ==
    {[id |-> <<"e">>, name |-> <<"P","l","a","n">>, content |-> Sentences(EstimationPhrases, order)] :
        order \in DistinctSeqs(DOMAIN EstimationPhrases, MaxPhrases) \ {<<>>}}

\* titles with and without a bracketed tag
Titles ==
    <<<<"D","e","p","l","o","y"," ","[","2","h","]">>, <<"D","e","p","l","o","y"," ","[","2","H","]">>, <<"P","l","a","n"," ","[","3"," ","D","a","y","s","]">>, <<"B","i","g"," ","[","5"," ","p","o","i","n","t","s","]">>,
      <<"E","p","i","c"," ","[","3","s","p","]">>, <<"S","p","i","k","e"," ","[","1",".","5"," ","S","P","]">>, <<"N","o"," ","t","a","g">>, <<"D","e","p","l","o","y"," ","[","2"," ","x","]">>, <<"D","e","p","l","o","y"," ","2","h">>,
      <<"[","4","w","]"," ","t","h","e","n"," ","[","2","d","]">>, <<"[","1"," ","p","o","i","n","t","]"," ","f","i","x">>, <<"S","p","r","i","n","t"," ","[","1","0"," ","h","r","s","]">>, <<>>, <<"T","a","k","e","s"," ","2"," ","d","a","y","s">>>>

\* contents no estimation pattern matches
UnmatchedContents == {<<>>, <<"z","z","z">>, <<"n","o"," ","n","u","m","b","e","r","s"," ","h","e","r","e">>, <<"s","e","e"," ","[","9","h","]">>}

\* contents with an estimation
MatchedContents == {<<"t","a","k","e","s"," ","2"," ","d","a","y","s">>, <<"5"," ","d","a","y","s">>}

TitleDocs ==
    {[id |-> <<"t">>, name |-> Titles[k], content |-> c] :
        k \in DOMAIN Titles, c \in UnmatchedContents \cup MatchedContents}

\* labels of a requirements section
RequirementLabels ==
    {<<"R","e","q","u","i","r","e","m","e","n","t","s",":">>, <<"R","e","q","u","i","r","e","m","e","n","t",":">>, <<"N","e","e","d","e","d",":">>, <<"M","u","s","t"," ","h","a","v","e",":">>, <<"P","r","e","-","r","e","q","s",":">>}

\* items whose text holds one of the context words of the bullet scan
RequirementItems == {<<"i","n","s","t","a","l","l"," ","t","h","e"," ","C","L","I">>, <<"i","n","s","t","a","l","l"," ","t","h","e"," ","c","l","i">>, <<"a","c","c","e","s","s"," ","t","o"," ","H","u","b","S","p","o","t">>}

\* the ways an item occurs twice: on the label's line and as a bullet; as the
\* bullet line directly below the label; as a later bullet under the label
\* and as a bullet elsewhere; as a starred line directly below the label
RequirementLayouts == {"inline", "below", "later", "starred"}

RequirementsSection(label, layout, item) ==
    CASE layout = "inline" -> label \o <<" ">> \o item \o <<"\n","-"," ">> \o item
      [] layout = "below" -> label \o <<"\n","-"," ">> \o item
      [] layout = "later" -> label \o <<" ","n","o","d","e","\n","-"," ">> \o item \o <<"\n","\n","N","o","t","e","s","\n","-"," ">> \o item
      [] layout = "starred" -> label \o <<"\n","*"," ">> \o item

RequirementDocs ==
    {[id |-> <<"r">>, name |-> <<"P","l","a","n">>, content |-> RequirementsSection(label, layout, item)] :
        label \in RequirementLabels, layout \in RequirementLayouts, item \in RequirementItems}

\* labels of a description section
DescriptionLabels ==
    {<<"D","e","s","c","r","i","p","t","i","o","n",":">>, <<"S","u","m","m","a","r","y",":">>, <<"O","v","e","r","v","i","e","w",":">>, <<"W","h","a","t",":">>, <<"P","u","r","p","o","s","e",":">>, <<"g","o","a","l",":">>}

\* what stands before the label, the first line of the section, and what
\* follows it: nothing, a heading, or one more line of the paragraph and a
\* bullet
Preambles == {<<>>, <<"#"," ","D","e","p","l","o","y","\n">>}
SectionLine == <<"D","e","p","l","o","y","s"," ","t","h","e"," ","a","p","p"," ","t","o"," ","p","r","o","d","u","c","t","i","o","n",".">>
SectionEnds == {<<>>, <<"\n","#"," ","S","t","e","p","s","\n","1","."," ","b","u","i","l","d">>, <<"\n","I","t"," ","r","u","n","s"," ","e","v","e","r","y"," ","n","i","g","h","t",".","\n","*"," ","b","u","i","l","d">>}

LabelledSection(before, label, after) == before \o label \o <<" ">> \o SectionLine \o after

LabelledDocs ==
    {[id |-> <<"l">>, name |-> <<"P","l","a","n">>, content |-> LabelledSection(before, label, after)] :
        before \in Preambles, label \in DescriptionLabels, after \in SectionEnds}

\* lines of a content without labels: a heading, two bullets, a numbered
\* line, a line of 22 spaces, a paragraph line, lines of exactly 20 and 21
\* characters, an indented heading, an empty line and a line starting with
\* digits
ContentLines ==
    <<<<"#"," ","H","e","a","d","i","n","g"," ","l","i","n","e"," ","t","h","a","t"," ","i","s"," ","l","o","n","g"," ","e","n","o","u","g","h">>, <<"*"," ","s","t","a","r","r","e","d"," ","l","i","n","e"," ","t","h","a","t"," ","i","s"," ","l","o","n","g"," ","e","n","o","u","g","h">>,
      <<"-"," ","d","a","s","h","e","d"," ","l","i","n","e"," ","t","h","a","t"," ","i","s"," ","l","o","n","g"," ","e","n","o","u","g","h">>, <<"1","2","."," ","n","u","m","b","e","r","e","d"," ","l","i","n","e"," ","t","h","a","t"," ","i","s"," ","l","o","n","g"," ","e","n","o","u","g","h">>,
      <<" "," "," "," "," "," "," "," "," "," "," "," "," "," "," "," "," "," "," "," "," "," ">>, <<"T","h","i","s"," ","i","s"," ","t","h","e"," ","f","i","r","s","t"," ","r","e","a","l"," ","p","a","r","a","g","r","a","p","h"," ","l","i","n","e",".">>,
      <<"e","x","a","c","t","l","y"," ","t","w","e","n","t","y"," ","c","h","a","r","s">>, <<"t","w","e","n","t","y","-","o","n","e"," ","c","h","a","r","a","c","t","e","r","s">>,
      <<" "," ","#"," ","i","n","d","e","n","t","e","d"," ","h","e","a","d","i","n","g",","," ","s","t","i","l","l"," ","a"," ","c","o","n","t","e","n","t"," ","l","i","n","e">>, <<>>,
      <<"3"," ","d","a","y","s"," ","i","s"," ","a"," ","l","i","n","e"," ","s","t","a","r","t","i","n","g"," ","w","i","t","h"," ","d","i","g","i","t","s">>>>

\* the most lines of a generated content
MaxLines == 2

LineOrders == UNION {[1..k -> DOMAIN ContentLines] : k \in 0..MaxLines}

LinesText(order) == Join([k \in 1..Len(order) |-> ContentLines[order[k]]], <<"\n">>)

LineDocs ==
    {[id |-> <<"n">>, name |-> <<"P","l","a","n">>, content |-> LinesText(order)] : order \in LineOrders}

\* phrases for the hours: one for each sprint pattern, one for each of the
\* first four hour patterns, and one without a number
HoursPhrases ==
    <<<<"S","t","o","r","y"," ","p","o","i","n","t","s",":"," ","5">>, <<"2"," ","s","p">>, <<"3"," ","h","o","u","r","s">>, <<"4"," ","h","r","s">>, <<"6","h">>, <<"H","o","u","r","s",":"," ","7">>,
      <<"n","o","t","h","i","n","g"," ","t","o"," ","c","o","u","n","t">>>>

\* the most phrases put into one content for the hours
MaxHoursPhrases == 2

HoursDocs ==
    {[id |-> <<"h">>, name |-> n, content |-> Sentences(HoursPhrases, order)] :
        n \in {<<"P","l","a","n">>, <<"D","e","p","l","o","y"," ","[","2","h","]">>},
        order \in DistinctSeqs(DOMAIN HoursPhrases, MaxHoursPhrases)}

\* the document of the end-to-end example
ExampleDoc ==
    [id |-> <<"x">>, name |-> <<"H","u","b","S","p","o","t"," ","A","u","d","i","t"," ","P","l","a","y","b","o","o","k">>,
     content |-> <<"R","e","q","u","i","r","e","m","e","n","t","s",":","\n","-"," ","a","c","c","e","s","s"," ","t","o"," ","H","u","b","S","p","o","t","\n","E","s","t","i","m","a","t","e",":"," ","3"," ","d","a","y","s","\n","T","h","i","s"," ","p","l","a","y","b","o","o","k"," ","c","o","v","e","r","s"," ","a"," ","f","u","l","l"," ","a","u","d","i","t"," ","o","f"," ","H","u","b","S","p","o","t"," ","c","o","n","f","i","g","u","r","a","t","i","o","n",".">>]

\* titles without a bracketed tag, some with words the content patterns look for
PlainTitles ==
    {<<>>, <<"P","l","a","n">>, <<"H","u","b","S","p","o","t"," ","A","u","d","i","t"," ","P","l","a","y","b","o","o","k">>, <<"D","e","p","l","o","y"," ","2","h">>, <<"E","s","t","i","m","a","t","e",":"," ","3"," ","d","a","y","s">>,
     <<"R","e","q","u","i","r","e","m","e","n","t","s",":"," ","a","c","c","e","s","s">>, <<"T","a","k","e","s"," ","2"," ","d","a","y","s">>, <<"5"," ","s","t","o","r","y"," ","p","o","i","n","t","s">>, <<"T","i","m","e","l","i","n","e",":"," ","Q","3">>,
     <<"P","r","e","r","e","q","u","i","s","i","t","e","s",":"," ","n","o","n","e">>}

EmptyDocs == {[id |-> <<"0">>, name |-> n, content |-> <<>>] : n \in PlainTitles}

ExtractDocs ==
    EstimationDocs \cup TitleDocs \cup RequirementDocs \cup LabelledDocs \cup LineDocs
        \cup HoursDocs \cup {ExampleDoc} \cup EmptyDocs

InitExtract ==
    /\ doc \in ExtractDocs
    /\ docs = <<>> /\ query = <<>> /\ out = NoResult
    /\ ClientIdle /\ ServerIdle

NextExtract == AnalyzeDocument

SpecExtract == InitExtract /\ [][NextExtract]_vars

----------------------------------------------------------------------------
(* Properties of assessComplexity *)

\* the keyword counts of the analysed document, before the length bonus
HighCount == IndicatorScore(toLowerCase(doc.content), highIndicators, 1)
MediumCount == IndicatorScore(toLowerCase(doc.content), mediumIndicators, 1)
LowCount == IndicatorScore(toLowerCase(doc.content), lowIndicators, 1)

KeywordTie == HighCount = MediumCount /\ HighCount > 0

\* C1, as stated: a document whose high-indicator keyword count equals its
\* medium-indicator keyword count, both above zero, is assessed "high".
C1_TieResolvesHigh ==
    (out.op = "assessComplexity" /\ KeywordTie) => out.v = "high"

\* C1, amended: with equal high and medium keyword counts above zero the
\* assessment is "high" only when the content is longer than 2000 characters
\* (the length bonus breaks the tie) and the high count is not below the low
\* count; otherwise it is "medium" or "low".  A tie between the final scores
\* of two buckets always goes to the lower bucket: low before medium before
\* high.
C1_TieResolvesLow ==
    out.op = "assessComplexity" =>
        LET sc == ComplexityScores(toLowerCase(doc.content))
            high == HighCount
            low == LowCount
            tie == high = MediumCount /\ high > 0
        IN  /\ tie =>
                /\ out.v = "high" <=>
                       (Len(doc.content) > HighLengthThreshold /\ high >= low)
                /\ out.v \in {"high", "medium", "low"}
            /\ (sc.high = sc.medium /\ sc.high > sc.low) => out.v = "medium"
            /\ (sc.high = sc.low /\ sc.high >= sc.medium) => out.v = "low"
            /\ (sc.medium = sc.low /\ sc.medium >= sc.high) => out.v = "low"

\* a short document with two high and two medium keywords has been assessed
\* "medium"
C1_Witness ==
    /\ out.op = "assessComplexity"
    /\ KeywordTie
    /\ HighCount = 2
    /\ Len(doc.content) <= MediumLengthThreshold
    /\ out.v = "medium"

----------------------------------------------------------------------------
(* Properties of searchDocuments *)

\* the number of occurrences of the token in the text: the most occurrences
\* that can be taken without two of them overlapping
Occurrences(text, token) ==
    LET at == {i \in 1..Len(text) : OccursAt(text, token, i)}
        apart == {S \in SUBSET at : \A i, j \in S : i # j => (i - j >= Len(token) \/ j - i >= Len(token))}
    IN  CHOOSE n \in 0..Cardinality(at) :
            /\ \E S \in apart : Cardinality(S) = n
            /\ \A S \in apart : Cardinality(S) <= n

RECURSIVE SumOfOccurrences(_, _)
\* the occurrences of every token of the list, added up
SumOfOccurrences(text, tokens) ==
    IF tokens = <<>> THEN 0
    ELSE Occurrences(text, Head(tokens)) + SumOfOccurrences(text, Tail(tokens))

\* score(doc): over the retained query tokens, in the lower-cased 'name content'
Score(d) ==
    SumOfOccurrences(toLowerCase(d.name \o <<" ">> \o d.content), queryTerms(query))

\* the position of the document with this id in the list, 0 when absent
PositionOf(ds, id) ==
    IF \E k \in 1..Len(ds) : ds[k].id = id
    THEN CHOOSE k \in 1..Len(ds) : ds[k].id = id
    ELSE 0

\* C2: searchDocuments returns the matching documents by non-increasing
\* score, the score of a document being the occurrences of every retained
\* query token in its lower-cased 'name content' text, added up; for the query
\* "audit hubspot" the document with "audit" three times (score 3) comes
\* before the document with "audit" once and "hubspot" once (score 2),
\* whatever their order in the input.
C2_OrderedByScore ==
    out.op = "searchDocuments" =>
        /\ \A i, j \in 1..Len(out.v) : i < j => Score(out.v[i]) >= Score(out.v[j])
        /\ (query = <<"a","u","d","i","t"," ","h","u","b","s","p","o","t">> /\ PositionOf(docs, <<"d","1">>) > 0 /\ PositionOf(docs, <<"d","2">>) > 0)
              => /\ PositionOf(out.v, <<"d","1">>) > 0
                 /\ PositionOf(out.v, <<"d","1">>) < PositionOf(out.v, <<"d","2">>)

\* the score-2 document was given before the score-3 document and is returned
\* after it
C2_Witness ==
    /\ out.op = "searchDocuments"
    /\ query = <<"a","u","d","i","t"," ","h","u","b","s","p","o","t">>
    /\ PositionOf(docs, <<"d","2">>) > 0
    /\ PositionOf(docs, <<"d","2">>) < PositionOf(docs, <<"d","1">>)
    /\ PositionOf(out.v, <<"d","1">>) > 0
    /\ PositionOf(out.v, <<"d","1">>) < PositionOf(out.v, <<"d","2">>)

\* the tokens of a query: its maximal runs of non-whitespace characters,
\* lower-cased, that are longer than two characters
Tokens(q) ==
    LET s == toLowerCase(q)
        Inked(i) == i >= 1 /\ i <= Len(s) /\ s[i] \notin WhiteSpace
    IN  {Sub(s, run[1], run[2]) : run \in
            {r \in (1..Len(s)) \X (1..(Len(s) + 1)) :
                /\ r[2] - r[1] > 2
                /\ \A k \in r[1]..(r[2] - 1) : Inked(k)
                /\ ~Inked(r[1] - 1)
                /\ ~Inked(r[2])}}

\* whether the lower-cased name and content of d contain one of the tokens
ContainsAny(d, tokens) ==
    \E t \in tokens : includes(toLowerCase(d.name \o <<" ">> \o d.content), t)

\* C3: searchDocuments splits the query on whitespace, discards the tokens of
\* one or two characters, and returns exactly the documents whose lower-cased
\* name and content contain at least one retained token; a query without a
\* retained token returns the empty list.
C3_AnyRetainedToken ==
    out.op = "searchDocuments" =>
        LET matching == {k \in 1..Len(docs) : ContainsAny(docs[k], Tokens(query))}
        IN  /\ {out.v[k] : k \in 1..Len(out.v)} = {docs[k] : k \in matching}
            /\ Len(out.v) = Cardinality(matching)
            /\ Tokens(query) = {} => out.v = <<>>

\* the query "of hubspot" has returned the document that contains "hubspot"
\* and not the one that contains only "of"
C3_Witness ==
    /\ out.op = "searchDocuments"
    /\ query = <<"o","f"," ","h","u","b","s","p","o","t">>
    /\ PositionOf(docs, <<"d","2">>) > 0
    /\ PositionOf(docs, <<"d","4">>) > 0
    /\ PositionOf(out.v, <<"d","2">>) > 0
    /\ PositionOf(out.v, <<"d","4">>) = 0

----------------------------------------------------------------------------
(* Properties of answerQuestion *)

\* the keywords of the three keyword branches, in their priority order
BranchKeywords ==
    <<{<<"e","s","t","i","m","a","t","e">>, <<"t","i","m","e">>, <<"d","u","r","a","t","i","o","n">>},
      {<<"r","e","q","u","i","r","e","m","e","n","t">>, <<"n","e","e","d">>, <<"p","r","e","r","e","q","u","i","s","i","t","e">>},
      {<<"d","e","s","c","r","i","p","t","i","o","n">>, <<"w","h","a","t">>, <<"h","o","w">>}>>

\* the branches a keyword of which the question contains, in any letter case
MatchingBranches(q) ==
    {b \in 1..3 : \E w \in BranchKeywords[b] : includes(toLowerCase(q), w)}

\* the lowest-numbered matching branch, 4 (the general search) when none matches
SelectedBranch(q) ==
    IF MatchingBranches(q) = {} THEN 4
    ELSE CHOOSE b \in MatchingBranches(q) : \A c \in MatchingBranches(q) : b <= c

\* the answer of branch b
BranchAnswer(b, ds, q) ==
    CASE b = 1 -> answerEstimationQuestion(ds, q)
      [] b = 2 -> answerRequirementsQuestion(ds, q)
      [] b = 3 -> answerDescriptionQuestion(ds, q)
      [] b = 4 -> IF searchDocuments(ds, q) = <<>>
                  THEN <<"I"," ","c","o","u","l","d","n","'","t"," ","f","i","n","d"," ","a","n","y"," ","r","e","l","e","v","a","n","t"," ","d","o","c","u","m","e","n","t","s"," ","f","o","r"," ","y","o","u","r"," ","q","u","e","s","t","i","o","n",".">>
                  ELSE formatGeneralAnswer(Analyses(Take(searchDocuments(ds, q), AnswerLimit)), q)

\* C4: answerQuestion answers by exactly one branch, the lowest-numbered one
\* a keyword of which occurs in the question (case-insensitively): estimation,
\* then requirements, then description, else the general search.
C4_LowestBranchAnswers ==
    out.op = "answerQuestion" => out.v = BranchAnswer(SelectedBranch(query), docs, query)

\* a question with "what" and "time" has got the estimation answer, which
\* differs from the description answer
C4_Witness ==
    /\ out.op = "answerQuestion"
    /\ query = <<"w","h","a","t"," ","t","i","m","e"," ","i","s"," ","i","t">>
    /\ MatchingBranches(query) = {1, 3}
    /\ out.v = answerEstimationQuestion(docs, query)
    /\ out.v # answerDescriptionQuestion(docs, query)

----------------------------------------------------------------------------
(* Properties of the sprint-point conversion *)

\* C10, as stated: whenever the content contains "5 points" the estimation is
\* "5 sprint points (40 hours)" and the hours are "40 hours (5 sprint points)".
C10_FivePointsAlways ==
    (out.op = "analyzeDocument" /\ includes(doc.content, <<"5"," ","p","o","i","n","t","s">>)) =>
        /\ out.v.estimation = Some(<<"5"," ","s","p","r","i","n","t"," ","p","o","i","n","t","s"," ","(","4","0"," ","h","o","u","r","s",")">>)
        /\ out.v.hours = Some(<<"4","0"," ","h","o","u","r","s"," ","(","5"," ","s","p","r","i","n","t"," ","p","o","i","n","t","s",")">>)

\* whether the content has "5 points" (in any letter case) with no word
\* character after it, and no digit besides that 5
OnlyFivePoints(content) ==
    /\ \E i \in 1..Len(content) :
          /\ OccursAt(toLowerCase(content), <<"5"," ","p","o","i","n","t","s">>, i)
          /\ ~IsWordAt(content, i + 8)
    /\ Cardinality({i \in 1..Len(content) : content[i] \in Digit}) = 1

\* C10, amended: when the content contains "5 points" not followed by a
\* letter, digit or underscore, and no other digit, the estimation is
\* "5 sprint points (40 hours)" and the hours are "40 hours (5 sprint points)".
C10_FivePointsAlone ==
    (out.op = "analyzeDocument" /\ OnlyFivePoints(doc.content)) =>
        /\ out.v.estimation = Some(<<"5"," ","s","p","r","i","n","t"," ","p","o","i","n","t","s"," ","(","4","0"," ","h","o","u","r","s",")">>)
        /\ out.v.hours = Some(<<"4","0"," ","h","o","u","r","s"," ","(","5"," ","s","p","r","i","n","t"," ","p","o","i","n","t","s",")">>)

\* the content "est: 5 points total" has been analysed
C10_Witness ==
    /\ out.op = "analyzeDocument"
    /\ doc.content = <<"e","s","t",":"," ","5"," ","p","o","i","n","t","s"," ","t","o","t","a","l">>
    /\ OnlyFivePoints(doc.content)
    /\ out.v.hours = Some(<<"4","0"," ","h","o","u","r","s"," ","(","5"," ","s","p","r","i","n","t"," ","p","o","i","n","t","s",")">>)

----------------------------------------------------------------------------
(* Properties of the document fetches *)

\* whether the listing request of the running method failed
ListingFailed == log # <<>> /\ log[1].status = "failed"

\* C5: getDocs, getAllDocs and getDocsByParentPageId never reject: without a
\* workspace id, and when the listing request fails (no answer, or a status
\* that is not OK), the method resolves to the empty list.
C5_FetchNeverRejects ==
    /\ ret.state # "rejected"
    /\ pc = "done" =>
          /\ ret.state = "resolved"
          /\ config.workspaceId = <<>> => (ret.value = <<>> /\ log = <<>>)
          /\ ListingFailed => ret.value = <<>>

\* getAllDocs has resolved to the empty list after its listing request
\* failed, in a workspace that holds documents
C5_Witness ==
    /\ pc = "done"
    /\ call.op = "getAllDocs"
    /\ remote # <<>>
    /\ ListingFailed
    /\ ret = Resolved(<<>>)

\* the documents the running method found listed, after its own filter
Listed == filteredDocs(call.op, call.arg, ListedDocs(call.op, call.arg))

\* whether the pages request for the listed document d failed
PagesFailed(d) ==
    \E k \in 2..Len(log) :
        log[k].request = getDocPages(docIdToUse(d)) /\ log[k].status = "failed"

\* the content a listed document gets when nothing fails
ContentOf(d) == IF HasDirectContent(call.op, d) THEN d.content ELSE PagesContent(d.pages)

\* C6: in every fetch variant, a listed document whose pages request fails is
\* still returned, with the empty string as its content; the other documents
\* are unaffected, and the returned list has one entry per listed document.
C6_FailedPagesKeepDocument ==
    (pc = "done" /\ log # <<>> /\ log[1].status = "answered") =>
        /\ Len(ret.value) = Len(Listed)
        /\ \A k \in 1..Len(ret.value) :
              /\ k <= Len(Listed)
              /\ ret.value[k].id = Listed[k].id
              /\ ret.value[k].content = IF PagesFailed(Listed[k]) THEN <<>> ELSE ContentOf(Listed[k])

\* the same for getDocs and getAllDocs only
C6_ExceptByParentPage ==
    call.op # "getDocsByParentPageId" => C6_FailedPagesKeepDocument

----------------------------------------------------------------------------
(* Properties of the handler of CallToolRequestSchema *)

\* the handler has answered the request
Answered == tool.method = "tools/call" /\ response # NoResponse

\* the response is a normal one with a single text item
SingleText ==
    /\ response.kind = "result"
    /\ Len(response.content) = 1
    /\ response.content[1].type = "text"

\* the text of the response
ResponseText == response.content[1].text

\* whether s ends with w
endsWith(s, w) == Len(w) <= Len(s) /\ SubSeq(s, Len(s) - Len(w) + 1, Len(s)) = w

\* the documents the tool fetched from the playbooks folder
Fetched == IF tool.name = <<"s","c","a","n","_","a","l","l","_","p","l","a","y","b","o","o","k","s">> THEN tool.held.value ELSE ret.value

\* the named cases: an unknown tool, an id that is not among the
\* fetched documents, a question left out, a query left out
NamedCases ==
    /\ tool.name \notin ToolNames => ResponseText = <<"E","r","r","o","r",":"," ","U","n","k","n","o","w","n"," ","t","o","o","l",":"," ">> \o tool.name
    /\ (/\ tool.name = <<"a","n","a","l","y","z","e","_","p","l","a","y","b","o","o","k">>
        /\ \A k \in 1..Len(Fetched) : ~tool.args.playbookId.some
                                       \/ Fetched[k].id # tool.args.playbookId.v)
       => ResponseText = <<"E","r","r","o","r",":"," ","P","l","a","y","b","o","o","k"," ","n","o","t"," ","f","o","u","n","d">>
    /\ (tool.name = <<"a","s","k","_","p","l","a","y","b","o","o","k","_","q","u","e","s","t","i","o","n">> /\ ~tool.args.question.some)
       => ResponseText = <<"E","r","r","o","r",":"," ","C","a","n","n","o","t"," ","r","e","a","d"," ","p","r","o","p","e","r","t","i","e","s"," ","o","f"," ","u","n","d","e","f","i","n","e","d"," ","(","r","e","a","d","i","n","g"," ","'","t","o","L","o","w","e","r","C","a","s","e","'",")">>
    /\ (tool.name = <<"s","e","a","r","c","h","_","p","l","a","y","b","o","o","k","s">> /\ ~tool.args.query.some)
       => IF Fetched = <<>> THEN startsWith(ResponseText, <<"N","o"," ","p","l","a","y","b","o","o","k","s"," ","f","o","u","n","d"," ","i","n"," ","f","o","l","d","e","r"," ">>)
          ELSE startsWith(ResponseText, <<"F","o","u","n","d"," ">> \o NatToDigits(Len(Fetched)) \o <<" ","t","o","t","a","l"," ","p","l","a","y","b","o","o","k","s",":">>)

\* C7 (as claimed): the handler never raises a protocol-level fault: for every
\* tool name and every arguments object it returns a normal response with a
\* single text item, and on any thrown error that text is 'Error: <message>'.
C7_EveryErrorAsErrorText ==
    Answered =>
        /\ SingleText
        /\ tool.error.some => ResponseText = <<"E","r","r","o","r",":"," ">> \o tool.error.v

\* C7 (amended): the handler never raises a protocol-level fault: it returns a
\* normal response with a single text item, and an error thrown out of the
\* tool method gives the text 'Error: <message>'; recommend_playbooks,
\* test_api_connection and scan_all_playbooks catch their own errors and
\* report them in their own text ('Error finding playbooks: <message>', a
\* line '<cross> **Error:** <message>' at the end of the report).
C7_ErrorTextUnlessCaughtByTool ==
    Answered =>
        /\ SingleText
        /\ NamedCases
        /\ tool.error.some =>
              IF tool.name = <<"r","e","c","o","m","m","e","n","d","_","p","l","a","y","b","o","o","k","s">>
              THEN ResponseText = <<"E","r","r","o","r"," ","f","i","n","d","i","n","g"," ","p","l","a","y","b","o","o","k","s",":"," ">> \o tool.error.v
              ELSE IF tool.name \in {<<"t","e","s","t","_","a","p","i","_","c","o","n","n","e","c","t","i","o","n">>, <<"s","c","a","n","_","a","l","l","_","p","l","a","y","b","o","o","k","s">>}
              THEN endsWith(ResponseText, <<"{cross}"," ","*","*","E","r","r","o","r",":","*","*"," ">> \o tool.error.v \o <<"\n">>)
              ELSE ResponseText = <<"E","r","r","o","r",":"," ">> \o tool.error.v

\* analyze_playbook was asked for an id that is not among the documents
\* fetched, and the response carries the error as its text
C7_Witness ==
    /\ Answered
    /\ tool.name = <<"a","n","a","l","y","z","e","_","p","l","a","y","b","o","o","k">>
    /\ tool.args.playbookId = Given(<<"9","9","9">>)
    /\ Len(Fetched) = 2
    /\ tool.error = Given(<<"P","l","a","y","b","o","o","k"," ","n","o","t"," ","f","o","u","n","d">>)
    /\ response = Result(<<"E","r","r","o","r",":"," ","P","l","a","y","b","o","o","k"," ","n","o","t"," ","f","o","u","n","d">>)

\* the canned answers of the four branches of answerQuestion
NoResultTexts ==
    <<<<"N","o"," ","e","s","t","i","m","a","t","i","o","n"," ","i","n","f","o","r","m","a","t","i","o","n"," ","f","o","u","n","d"," ","i","n"," ","t","h","e"," ","a","v","a","i","l","a","b","l","e"," ","p","l","a","y","b","o","o","k","s",".">>,
      <<"N","o"," ","s","p","e","c","i","f","i","c"," ","r","e","q","u","i","r","e","m","e","n","t","s"," ","f","o","u","n","d"," ","i","n"," ","t","h","e"," ","a","v","a","i","l","a","b","l","e"," ","p","l","a","y","b","o","o","k","s",".">>,
      <<"N","o"," ","r","e","l","e","v","a","n","t"," ","p","l","a","y","b","o","o","k","s"," ","f","o","u","n","d"," ","f","o","r"," ","y","o","u","r"," ","q","u","e","s","t","i","o","n",".">>,
      <<"I"," ","c","o","u","l","d","n","'","t"," ","f","i","n","d"," ","a","n","y"," ","r","e","l","e","v","a","n","t"," ","d","o","c","u","m","e","n","t","s"," ","f","o","r"," ","y","o","u","r"," ","q","u","e","s","t","i","o","n",".">>>>

\* the question-answering tools, called with the question they require
AsksOverDocuments ==
    /\ tool.name \in {<<"s","e","a","r","c","h","_","p","l","a","y","b","o","o","k","s">>, <<"g","e","t","_","p","l","a","y","b","o","o","k","_","e","s","t","i","m","a","t","i","o","n","s">>,
                      <<"g","e","t","_","p","l","a","y","b","o","o","k","_","r","e","q","u","i","r","e","m","e","n","t","s">>, <<"r","e","c","o","m","m","e","n","d","_","p","l","a","y","b","o","o","k","s">>,
                      <<"a","s","k","_","p","l","a","y","b","o","o","k","_","q","u","e","s","t","i","o","n">>}
    /\ tool.name \in {<<"r","e","c","o","m","m","e","n","d","_","p","l","a","y","b","o","o","k","s">>, <<"a","s","k","_","p","l","a","y","b","o","o","k","_","q","u","e","s","t","i","o","n">>}
       => tool.args.question.some

\* C8: an empty document list is a valid input: when the fetch yields no
\* documents, answerQuestion (through ask_playbook_question) returns the canned
\* answer of the branch the question selects, and search_playbooks,
\* get_playbook_estimations, get_playbook_requirements and recommend_playbooks
\* return their nothing-found text, never an 'Error' text.
C8_NothingFoundOnEmptyList ==
    (Answered /\ AsksOverDocuments /\ Fetched = <<>>) =>
        /\ SingleText
        /\ ~tool.error.some
        /\ ~startsWith(ResponseText, <<"E","r","r","o","r">>)
        /\ ResponseText =
             CASE tool.name = <<"a","s","k","_","p","l","a","y","b","o","o","k","_","q","u","e","s","t","i","o","n">> ->
                     NoResultTexts[SelectedBranch(tool.args.question.v)]
               [] tool.name = <<"s","e","a","r","c","h","_","p","l","a","y","b","o","o","k","s">> ->
                     <<"N","o"," ","p","l","a","y","b","o","o","k","s"," ","f","o","u","n","d"," ","i","n"," ","f","o","l","d","e","r"," ","9","8","1","0","7","9","2","8","."," ","C","h","e","c","k"," ","y","o","u","r"," ","f","o","l","d","e","r"," ","I","D"," ","a","n","d"," ","A","P","I"," ","p","e","r","m","i","s","s","i","o","n","s",".">>
               [] tool.name = <<"g","e","t","_","p","l","a","y","b","o","o","k","_","e","s","t","i","m","a","t","i","o","n","s">> ->
                     <<"N","o"," ","e","s","t","i","m","a","t","i","o","n"," ","i","n","f","o","r","m","a","t","i","o","n"," ","f","o","u","n","d"," ","i","n"," ","p","l","a","y","b","o","o","k","s">>
               [] tool.name = <<"g","e","t","_","p","l","a","y","b","o","o","k","_","r","e","q","u","i","r","e","m","e","n","t","s">> ->
                     <<"N","o"," ","s","p","e","c","i","f","i","c"," ","r","e","q","u","i","r","e","m","e","n","t","s"," ","f","o","u","n","d"," ","i","n"," ","p","l","a","y","b","o","o","k","s">>
               [] tool.name = <<"r","e","c","o","m","m","e","n","d","_","p","l","a","y","b","o","o","k","s">> ->
                     <<"N","o"," ","r","e","l","e","v","a","n","t"," ","p","l","a","y","b","o","o","k","s"," ","f","o","u","n","d"," ","f","o","r",":"," ","\"">> \o tool.args.question.v
                     \o <<"\"","\n","\n","A","v","a","i","l","a","b","l","e"," ","p","l","a","y","b","o","o","k","s"," ","i","n"," ","f","o","l","d","e","r",":","\n">>

\* the listing of a workspace that has playbooks failed, so that
\* recommend_playbooks got no documents, and it answered that nothing was found
C8_Witness ==
    /\ Answered
    /\ tool.name = <<"r","e","c","o","m","m","e","n","d","_","p","l","a","y","b","o","o","k","s">>
    /\ tool.args.question = Given(<<"h","u","b","s","p","o","t"," ","a","u","d","i","t">>)
    /\ remote # <<>>
    /\ Fetched = <<>>
    /\ log[1].status = "failed"
    /\ startsWith(ResponseText, <<"N","o"," ","r","e","l","e","v","a","n","t"," ","p","l","a","y","b","o","o","k","s"," ","f","o","u","n","d"," ","f","o","r",":"," ","\"","h","u","b","s","p","o","t"," ","a","u","d","i","t","\"">>)

----------------------------------------------------------------------------
(* Properties of the field extractors *)

Analyzed == out.op = "analyzeDocument"

\* the least number of a set of numbers
Least(S) == CHOOSE x \in S : \A y \in S : x <= y

\* the phrases of a list that a content holds
Mentioned(phrases, content) == {k \in DOMAIN phrases : includes(content, phrases[k])}

\* what each estimation phrase yields when it is the one reported
EstimationOfPhrase ==
    <<<<"5"," ","s","p","r","i","n","t"," ","p","o","i","n","t","s"," ","(","4","0"," ","h","o","u","r","s",")">>, <<"7"," ","s","p","r","i","n","t"," ","p","o","i","n","t","s"," ","(","5","6"," ","h","o","u","r","s",")">>, <<"3"," ","d","a","y","s">>,
      <<"4"," ","h","o","u","r","s">>, <<"2"," ","w","e","e","k","s">>, <<"5"," ","d","a","y","s">>>>

\* C11: the estimation comes from the first pattern of the list that matches
\* somewhere in the content, wherever the matches of the later patterns are:
\* of the phrases a content is made of, in any order, the one of the earliest
\* pattern is reported, so "Story points: 5" wins over an earlier "5 days".
C11_FirstPatternWins ==
    (Analyzed /\ doc \in EstimationDocs) =>
        out.v.estimation =
            Some(EstimationOfPhrase[Least(Mentioned(EstimationPhrases, doc.content))])

\* "5 days. Story points: 5" has been analysed
C11_Witness ==
    /\ Analyzed
    /\ doc.content = <<"5"," ","d","a","y","s","."," ","S","t","o","r","y"," ","p","o","i","n","t","s",":"," ","5">>
    /\ out.v.estimation = Some(<<"5"," ","s","p","r","i","n","t"," ","p","o","i","n","t","s"," ","(","4","0"," ","h","o","u","r","s",")">>)

\* what the tag of each title yields; the title reaches the extractor
\* lower-cased
EstimationOfTitles ==
    <<Some(<<"2","h">>), Some(<<"2","h">>), Some(<<"3"," ","d","a","y","s">>), Some(<<"5"," ","s","p","r","i","n","t"," ","p","o","i","n","t","s"," ","(","4","0"," ","h","o","u","r","s",")">>),
      Some(<<"3"," ","s","p","r","i","n","t"," ","p","o","i","n","t","s"," ","(","2","4"," ","h","o","u","r","s",")">>), Some(<<"1",".","5"," ","s","p","r","i","n","t"," ","p","o","i","n","t","s"," ","(","1","2"," ","h","o","u","r","s",")">>), Null,
      Null, Null, Some(<<"4","w">>), Some(<<"1"," ","s","p","r","i","n","t"," ","p","o","i","n","t","s"," ","(","8"," ","h","o","u","r","s",")">>), Some(<<"1","0"," ","h","r","s">>),
      Null, Null>>

\* what the contents with an estimation yield
EstimationOfContent(content) ==
    IF content = <<"t","a","k","e","s"," ","2"," ","d","a","y","s">> THEN Some(<<"2"," ","d","a","y","s">>) ELSE Some(<<"5"," ","d","a","y","s">>)

\* C12: the bracketed tag of the title is consulted only when no content
\* pattern matches: then the estimation is the tag without its brackets, or
\* the sprint-point text when its unit is sp or points, and none when the
\* title has no tag; a content with an estimation is reported whatever the
\* title.
C12_TitleTagOnlyAsFallback ==
    Analyzed =>
        \A k \in DOMAIN Titles :
            doc.name = Titles[k] =>
                /\ doc.content \in UnmatchedContents =>
                      out.v.estimation = EstimationOfTitles[k]
                /\ doc.content \in MatchedContents =>
                      out.v.estimation = EstimationOfContent(doc.content)

\* the document with no content and the title "Deploy [2h]" has been analysed
C12_Witness ==
    /\ Analyzed
    /\ doc.name = <<"D","e","p","l","o","y"," ","[","2","h","]">>
    /\ doc.content = <<>>
    /\ out.v.estimation = Some(<<"2","h">>)

\* the entries of a list that hold the text of an item
EntriesWith(list, item) == {i \in DOMAIN list : includes(list[i], toLowerCase(item))}

NoTwoEqual(list) == \A i, j \in DOMAIN list : i # j => list[i] # list[j]

\* C13: an item that occurs twice, under a requirements label and as a bullet
\* line with a context word (also when that is the one bullet line directly
\* below the label), is in the requirements list exactly once, and the list
\* never holds two equal strings.
C13_ItemListedOnce ==
    Analyzed =>
        /\ NoTwoEqual(out.v.requirements)
        /\ \A label \in RequirementLabels, layout \in RequirementLayouts,
              item \in RequirementItems :
              doc.content = RequirementsSection(label, layout, item) =>
                  Cardinality(EntriesWith(out.v.requirements, item)) = 1

\* the part of C13 that holds: no two equal strings, and one entry for the
\* item unless it is the bullet line directly below the label
C13_ExceptDirectlyBelow ==
    Analyzed =>
        /\ NoTwoEqual(out.v.requirements)
        /\ \A label \in RequirementLabels, layout \in {"inline", "later"},
              item \in RequirementItems :
              doc.content = RequirementsSection(label, layout, item) =>
                  Cardinality(EntriesWith(out.v.requirements, item)) = 1

\* the text a labelled section holds after its label: its first line, and the
\* next line when that is neither a heading, a bullet nor a numbered line
TextAfterLabel(after) ==
    IF after = <<"\n","I","t"," ","r","u","n","s"," ","e","v","e","r","y"," ","n","i","g","h","t",".","\n","*"," ","b","u","i","l","d">>
    THEN SectionLine \o <<"\n","I","t"," ","r","u","n","s"," ","e","v","e","r","y"," ","n","i","g","h","t",".">>
    ELSE SectionLine

\* C14: when the content has exactly one section labelled description:,
\* summary:, overview:, what:, purpose: or goal:, the description is the text
\* after that label, up to the next heading, bullet or numbered line.
C14_LabelledSectionReturned ==
    Analyzed =>
        \A before \in Preambles, label \in DescriptionLabels, after \in SectionEnds :
            doc.content = LabelledSection(before, label, after) =>
                out.v.description = TextAfterLabel(after)

\* the lines of ContentLines that extractDescription may return: not blank,
\* no marker at the start, more than 20 characters
ReturnableLines == {ContentLines[k] : k \in {6, 8, 9, 11}}

\* the positions of the lines of a content that may be returned
ReturnableAt(lines) == {k \in DOMAIN lines : lines[k] \in ReturnableLines}

\* the line of a content that is due as its description, or the title
DueLine(lines, title) ==
    IF ReturnableAt(lines) = {} THEN title ELSE lines[Least(ReturnableAt(lines))]

\* C15: without a labelled section the description is the first line of the
\* content, in document order, that is not blank, does not start with #, *,
\* - or digits and a dot, and has more than 20 characters; without such a
\* line it is the title.
C15_FirstContentLineOrTitle ==
    (Analyzed /\ doc \in LineDocs) =>
        out.v.description = DueLine(SplitLines(doc.content), doc.name)

\* a heading followed by a paragraph line has been analysed
C15_Witness ==
    /\ Analyzed
    /\ doc.content = LinesText(<<1, 6>>)
    /\ out.v.description = <<"T","h","i","s"," ","i","s"," ","t","h","e"," ","f","i","r","s","t"," ","r","e","a","l"," ","p","a","r","a","g","r","a","p","h"," ","l","i","n","e",".">>

\* what each hours phrase yields when it is the one reported
HoursOfPhrase ==
    <<Some(<<"4","0"," ","h","o","u","r","s"," ","(","5"," ","s","p","r","i","n","t"," ","p","o","i","n","t","s",")">>), Some(<<"1","6"," ","h","o","u","r","s"," ","(","2"," ","s","p","r","i","n","t"," ","p","o","i","n","t","s",")">>),
      Some(<<"3"," ","h","o","u","r","s">>), Some(<<"4"," ","h","o","u","r","s">>), Some(<<"6"," ","h","o","u","r","s">>), Some(<<"7"," ","h","o","u","r","s">>), Null>>

\* C16: the hours come from the content alone: from the points when a sprint
\* pattern matches, even after an earlier hour phrase; otherwise from the
\* first hour pattern that matches; otherwise none, whatever the title and
\* the estimation are.
C16_HoursFromContentPointsFirst ==
    (Analyzed /\ doc \in HoursDocs) =>
        /\ out.v.hours =
              IF doc.content = <<>> THEN Null
              ELSE HoursOfPhrase[Least(Mentioned(HoursPhrases, doc.content))]
        /\ (doc.content = <<>> /\ doc.name = <<"D","e","p","l","o","y"," ","[","2","h","]">>) =>
              out.v.estimation = Some(<<"2","h">>)

\* "3 hours. 2 sp" under the title "Deploy [2h]" has been analysed
C16_Witness ==
    /\ Analyzed
    /\ doc.name = <<"D","e","p","l","o","y"," ","[","2","h","]">>
    /\ doc.content = <<"3"," ","h","o","u","r","s","."," ","2"," ","s","p">>
    /\ out.v.hours = Some(<<"1","6"," ","h","o","u","r","s"," ","(","2"," ","s","p","r","i","n","t"," ","p","o","i","n","t","s",")">>)

\* C17: the example document yields the estimation "3 days", the one
\* requirement "access to HubSpot" (in the letter case of the analysed
\* content) and no tags.
C17_ExampleAnalysis ==
    (Analyzed /\ doc = ExampleDoc) =>
        /\ out.v.estimation = Some(<<"3"," ","d","a","y","s">>)
        /\ Len(out.v.requirements) = 1
        /\ toLowerCase(out.v.requirements[1]) = toLowerCase(<<"a","c","c","e","s","s"," ","t","o"," ","H","u","b","S","p","o","t">>)
        /\ out.v.tags = <<>>

\* the part of C17 that holds, and the requirements the code returns
C17_ExampleAsAnalysed ==
    (Analyzed /\ doc = ExampleDoc) =>
        /\ out.v.estimation = Some(<<"3"," ","d","a","y","s">>)
        /\ out.v.requirements = <<<<"-"," ","a","c","c","e","s","s"," ","t","o"," ","h","u","b","s","p","o","t">>, <<"a","c","c","e","s","s"," ","t","o"," ","h","u","b","s","p","o","t">>>>
        /\ out.v.tags = <<>>

\* C18: a document with empty content and no bracketed tag in its title is
\* analysed without an error, with no estimation, no hours, no timing, no
\* requirements and no prerequisites.
C18_EmptyContentYieldsNothing ==
    (Analyzed /\ doc.content = <<>> /\ doc.name \in PlainTitles) =>
        /\ out.v.estimation = Null
        /\ out.v.hours = Null
        /\ out.v.timing = Null
        /\ out.v.requirements = <<>>
        /\ out.v.prerequisites = <<>>

\* the document with no content and the title "Deploy 2h" has been analysed
C18_Witness ==
    /\ Analyzed
    /\ doc.content = <<>>
    /\ doc.name = <<"D","e","p","l","o","y"," ","2","h">>
    /\ out.v.hours = Null

----------------------------------------------------------------------------
(* Properties of the order of the content fetches *)

\* the exchanges of the log that are not settled
PendingAt == {k \in DOMAIN log : log[k].status = "pending"}

\* the ids of a list of documents
Ids(ds) == [k \in DOMAIN ds |-> ds[k].id]

\* the listed documents from the n-th on
ListedFrom(n) == SubSeq(Listed, n, Len(Listed))

\* C19: the content fetches of one getDocs or getAllDocs call are sequential
\* and keep the order: at most one request is outstanding, the pages of a
\* listed document are requested only when every earlier exchange has
\* settled (answered or failed) and the documents before it have been
\* pushed, and the returned documents are in the order of the listing.
C19_OneRequestAtATimeInOrder ==
    /\ Cardinality(PendingAt) <= 1
    /\ PendingAt # {} => (PendingAt = {Len(log)} /\ net = log[Len(log)].request)
    /\ call.op \in {"getDocs", "getAllDocs"} =>
          /\ pc = "pages" =>
                /\ net = getDocPages(docIdToUse(Head(listing)))
                /\ listing = ListedFrom(Len(acc) + 1)
                /\ Ids(acc) = Ids(SubSeq(Listed, 1, Len(acc)))
          /\ (pc = "done" /\ log # <<>> /\ log[1].status = "answered") =>
                Ids(ret.value) = Ids(Listed)

\* getAllDocs waits for the pages of its second document after the pages
\* request of the first one failed
C19_Witness ==
    /\ call.op = "getAllDocs"
    /\ pc = "pages"
    /\ Len(log) = 3
    /\ log[2].status = "failed"
    /\ log[3].status = "pending"
    /\ Len(acc) = 1

\* the positions of the log at which the request r was sent
SentAt(r) == {k \in DOMAIN log : log[k].request = r}

----------------------------------------------------------------------------
(* Properties of the server across requests *)

\* the documents a fetch delivers, read from the exchanges of the log from
\* the k-th on: docs, and next, the position of the first exchange after
\* those of the fetch
RECURSIVE Delivered(_, _, _, _, _)
Delivered(op, arg, rest, built, k) ==
    IF rest = <<>> THEN [docs |-> built, next |-> k]
    ELSE IF HasDirectContent(op, Head(rest))
    THEN Delivered(op, arg, Tail(rest),
                   Append(built, ClickUpDoc(op, arg, Head(rest), Head(rest).content)), k)
    ELSE Delivered(op, arg, Tail(rest),
                   Append(built, ClickUpDoc(op, arg, Head(rest),
                                            IF log[k].status = "failed" THEN <<>>
                                            ELSE PagesContent(Head(rest).pages))),
                   k + 1)

\* the same from the listing request at position k on
DeliveredFrom(op, arg, k) ==
    IF k > Len(log) \/ log[k].status = "failed" THEN [docs |-> <<>>, next |-> k + 1]
    ELSE Delivered(op, arg, filteredDocs(op, arg, ListedDocs(op, arg)), <<>>, k + 1)

\* the documents of the playbooks folder and of the workspace that the
\* service delivered during the request being handled
FolderDocs == DeliveredFrom("getDocs", playbooksFolderId, 1)
WorkspaceDocs == DeliveredFrom("getAllDocs", <<>>, FolderDocs.next)

\* what the request being handled is due, from its parameters and the
\* documents delivered to it
DueResponse ==
    CASE tool.method = "tools/call" /\ tool.name \notin ToolNames ->
            CallToolRequestHandler(UnknownTool(tool.name))
      [] tool.method = "tools/call" /\ tool.name \in ToolNames ->
            CallToolRequestHandler(
                ToolMethod(tool.name, tool.args, Resolved(FolderDocs.docs),
                           IF tool.name = <<"s","c","a","n","_","a","l","l","_","p","l","a","y","b","o","o","k","s">>
                           THEN Resolved(WorkspaceDocs.docs) ELSE Pending))
      [] tool.method = "resources/list" -> ListResourcesRequestHandler(Resolved(FolderDocs.docs))
      [] tool.method = "resources/read" /\ ~startsWith(tool.args.uri.v, UriPrefix) ->
            ProtocolError(<<"I","n","v","a","l","i","d"," ","r","e","s","o","u","r","c","e"," ","U","R","I">>)
      [] tool.method = "resources/read" /\ startsWith(tool.args.uri.v, UriPrefix) ->
            ReadResourceRequestHandler(tool.args.uri.v, Resolved(FolderDocs.docs))

\* a request is being handled, with documents needed
Handling == tool.phase # "idle"

\* the handler of the last request has returned
Handled == tool.method # "none" /\ tool.phase = "idle"

\* the configuration is as constructed; a request being handled has sent its
\* own listing request for the playbooks folder; a request handled has the
\* response due to its parameters and the documents delivered to it
FreshlyFetched ==
    /\ config = ServerConfig
    /\ Handling =>
          (log # <<>> /\ log[1].request = FolderListingRequest(playbooksFolderId))
    /\ Handled => response = DueResponse

\* a handler that needs documents starts its fetch from nothing: whatever
\* the earlier requests left in the client and the server is replaced
StartsAfresh ==
    (tool.phase = "idle" /\ tool'.phase = "folder") =>
        /\ log' = <<Exchange(FolderListingRequest(playbooksFolderId))>>
        /\ net' = FolderListingRequest(playbooksFolderId)
        /\ ret' = Pending /\ acc' = <<>> /\ listing' = <<>>
        /\ response' = NoResponse
        /\ tool'.held = Pending /\ tool'.error = Missing

\* C20: no state is carried between requests: every tool call and resource
\* request that needs documents fetches them itself, no handler changes the
\* configuration of the server, and the response is the one due to the
\* parameters of the request and the documents delivered during it, whatever
\* requests were handled before.
C20_NothingCarriedOver == []FreshlyFetched /\ [][StartsAfresh /\ config' = config]_vars

\* search_playbooks has reported an empty folder after its own listing
\* request failed, in a workspace that holds playbooks
C20_Witness ==
    /\ Handled
    /\ tool.name = <<"s","e","a","r","c","h","_","p","l","a","y","b","o","o","k","s">>
    /\ remote # <<>> /\ ListedDocs("getDocs", playbooksFolderId) # <<>>
    /\ log[1].status = "failed"
    /\ response = Result(NoPlaybooksInFolder)

----------------------------------------------------------------------------
(* Properties of the resource handlers *)

\* the first of the documents ds with the id of ds[k]
FirstWithIdOf(ds, k) == ds[Least({j \in DOMAIN ds : ds[j].id = ds[k].id})]

\* the resource list names every delivered document, in order, under the
\* prefix followed by its id
AdvertisedById ==
    (Handled /\ tool.method = "resources/list") =>
        /\ response.kind = "resources"
        /\ Len(response.content) = Len(FolderDocs.docs)
        /\ \A k \in DOMAIN FolderDocs.docs :
              /\ response.content[k].uri = <<"c","l","i","c","k","u","p",":","/","/","p","l","a","y","b","o","o","k","/">> \o FolderDocs.docs[k].id
              /\ response.content[k].name = FolderDocs.docs[k].name

\* a read of the uri under which a delivered document is advertised returns
\* one text under that uri: it starts with the heading of the document's
\* name and ends with its content
ReadReturnsAdvertised ==
    (Handled /\ tool.method = "resources/read") =>
        \A k \in DOMAIN FolderDocs.docs :
            tool.args.uri.v = <<"c","l","i","c","k","u","p",":","/","/","p","l","a","y","b","o","o","k","/">> \o FolderDocs.docs[k].id =>
                /\ response.kind = "contents"
                /\ Len(response.content) = 1
                /\ response.content[1].uri = tool.args.uri.v
                /\ startsWith(response.content[1].text,
                              <<"#"," ">> \o FirstWithIdOf(FolderDocs.docs, k).name \o <<"\n","\n">>)
                /\ endsWith(response.content[1].text,
                            <<"*","*","O","r","i","g","i","n","a","l"," ","C","o","n","t","e","n","t",":","*","*","\n">> \o FirstWithIdOf(FolderDocs.docs, k).content)

\* C21: every document of the resource list is advertised under
\* 'clickup://playbook/<id>', and a read of that uri over the same documents
\* returns the text of the document with that id, under the same uri, with
\* the document's content at the end of the text.
C21_ResourceRoundTrip == AdvertisedById /\ ReadReturnsAdvertised

\* the resource of the document 101 has been read, and its text ends with
\* the content of the document's page
C21_Witness ==
    /\ Handled /\ tool.method = "resources/read"
    /\ tool.args.uri.v = <<"c","l","i","c","k","u","p",":","/","/","p","l","a","y","b","o","o","k","/","1","0","1">>
    /\ response.kind = "contents"
    /\ \E k \in DOMAIN FolderDocs.docs :
          FolderDocs.docs[k].id = <<"1","0","1">> /\ FolderDocs.docs[k].content # <<>>

\* the handler has thrown: the request is answered with an error of the
\* protocol and no content
ThrownWith(message) == response = [kind |-> "fault", content |-> message]

\* C30: resource reads fail at the level of the protocol: the ReadResource
\* handler throws 'Invalid resource URI' for a uri that does not start with
\* 'clickup://playbook/' and 'Failed to read resource: Document not found'
\* when no fetched document has the id asked for, also when the fetch failed
\* and gave the empty list; the ListResources handler never throws and
\* returns the empty resource list then.
C30_ReadThrowsListDoesNot ==
    /\ (Handled /\ tool.method = "resources/read") =>
          /\ ~startsWith(tool.args.uri.v, <<"c","l","i","c","k","u","p",":","/","/","p","l","a","y","b","o","o","k","/">>)
                => ThrownWith(<<"I","n","v","a","l","i","d"," ","r","e","s","o","u","r","c","e"," ","U","R","I">>)
          /\ (/\ startsWith(tool.args.uri.v, <<"c","l","i","c","k","u","p",":","/","/","p","l","a","y","b","o","o","k","/">>)
              /\ \A k \in DOMAIN FolderDocs.docs :
                    <<"c","l","i","c","k","u","p",":","/","/","p","l","a","y","b","o","o","k","/">> \o FolderDocs.docs[k].id # tool.args.uri.v)
                => ThrownWith(<<"F","a","i","l","e","d"," ","t","o"," ","r","e","a","d"," ","r","e","s","o","u","r","c","e",":"," ","D","o","c","u","m","e","n","t"," ","n","o","t"," ","f","o","u","n","d">>)
    /\ (Handled /\ tool.method = "resources/list") =>
          /\ response.kind = "resources"
          /\ log[1].status = "failed" => response.content = <<>>

\* a read of the resource of a document of the folder has thrown 'Document
\* not found' after the listing request failed
C30_Witness ==
    /\ Handled /\ tool.method = "resources/read"
    /\ tool.args.uri.v = <<"c","l","i","c","k","u","p",":","/","/","p","l","a","y","b","o","o","k","/","1","0","1">>
    /\ \E k \in DOMAIN remote : remote[k].id = <<"1","0","1">> /\ remote[k].parent.id = playbooksFolderId
    /\ log[1].status = "failed"
    /\ ThrownWith(<<"F","a","i","l","e","d"," ","t","o"," ","r","e","a","d"," ","r","e","s","o","u","r","c","e",":"," ","D","o","c","u","m","e","n","t"," ","n","o","t"," ","f","o","u","n","d">>)

----------------------------------------------------------------------------
(* Properties of the access to the service *)

\* the requests of the client methods outside the document fetches
OtherRequests ==
    {getWorkspaces, getSpaces(config.workspaceId), getTasksInList(<<"9","0","1">>)}
    \cup {getFolder(f) : f \in FolderIds}
    \cup {getFolders(<<"5","5">>, archived) : archived \in BOOLEAN}

\* C22: read-only access: every request that a tool, a resource handler or
\* a client method hands to fetch uses the GET method; none creates, changes
\* or deletes data of the service.
C22_OnlyGetRequests ==
    /\ \A k \in DOMAIN log : log[k].request.method = "GET"
    /\ net.method \in {"GET", "none"}
    /\ \A request \in OtherRequests : request.method = "GET"

\* scan_all_playbooks has been answered after the two listing requests and
\* a pages request
C22_Witness ==
    /\ Answered /\ tool.name = <<"s","c","a","n","_","a","l","l","_","p","l","a","y","b","o","o","k","s">>
    /\ Len(log) >= 3
    /\ \E k \in DOMAIN log : log[k].request = WorkspaceListingRequest
    /\ \E k \in DOMAIN log : \E d \in {RawAudit, RawGuide} : log[k].request = getDocPages(docIdToUse(d))

----------------------------------------------------------------------------
(* Properties of the handling of the token *)

\* the lines written with console.error during the request being handled or
\* last handled
Console ==
    FetchLines("getDocs", playbooksFolderId, log, 1)
    \o (IF tool.name = <<"s","c","a","n","_","a","l","l","_","p","l","a","y","b","o","o","k","s">>
        THEN FetchLines("getAllDocs", <<>>, log,
                        Least({k \in DOMAIN log : log[k].request = WorkspaceListingRequest}
                              \cup {Len(log) + 1}))
        ELSE <<>>)
    \o (IF Handled /\ tool.phase = "idle" /\ tool.name \in ToolNames
        THEN HandlerLines(tool.method, tool.name, tool.args, FolderDocs.docs) ELSE <<>>)

\* the texts that leave the server other than in a request to the service:
\* the texts of the response and the parts of the console lines
Disclosed ==
    (CASE response.kind = "result" -> {response.content[k].text : k \in DOMAIN response.content}
       [] response.kind = "contents" -> {response.content[k].text : k \in DOMAIN response.content}
       [] response.kind = "resources" ->
             UNION {{response.content[k].uri, response.content[k].name,
                     response.content[k].description} : k \in DOMAIN response.content}
       [] response.kind = "fault" -> {response.content}
       [] OTHER -> {})
    \cup UNION {{Console[k][j] : j \in DOMAIN Console[k]} : k \in DOMAIN Console}

\* the requests sent to the service so far
Sent == {log[k].request : k \in DOMAIN log}

----------------------------------------------------------------------------
(* Properties of the scope of the documents reported *)

\* the documents of the workspace that are not in the playbooks folder
Outside == SelectSeq(remote, LAMBDA d : d.parent.id # playbooksFolderId)

\* the texts of the response
Texts ==
    CASE response.kind \in {"result", "contents"} ->
            {response.content[k].text : k \in DOMAIN response.content}
      [] response.kind = "resources" -> {response.content[k].uri : k \in DOMAIN response.content}
      [] response.kind = "fault" -> {response.content}
      [] OTHER -> {}

\* the response names no document from outside the folder: neither by its id
\* nor by the name of its folder
NoneFromOutside ==
    \A k \in DOMAIN Outside : \A text \in Texts :
        /\ ~includes(text, <<"I","D",":"," ">> \o Outside[k].id)
        /\ ~includes(text, <<"I","D",":","*","*"," ">> \o Outside[k].id)
        /\ ~includes(text, UriPrefix \o Outside[k].id)
        /\ ~includes(text, <<"(">> \o Outside[k].parent.id \o <<")">>)
        /\ Outside[k].parent.name # <<>> => ~includes(text, Outside[k].parent.name)

C24_ScanReportsOutside ==
    /\ Handled /\ tool.name = <<"s","c","a","n","_","a","l","l","_","p","l","a","y","b","o","o","k","s">>
    /\ FolderDocs.docs = <<>>
    /\ ~NoneFromOutside

----------------------------------------------------------------------------
(* Properties of the length bonus of assessComplexity *)

\* the bucket that the length of the analysed content gives the bonus to
BonusBucket ==
    IF Len(doc.content) > 2000 THEN "high"
    ELSE IF Len(doc.content) > 500 THEN "medium"
    ELSE "low"

\* the keyword counts of the analysed document
KeywordCounts == [high |-> HighCount, medium |-> MediumCount, low |-> LowCount]

\* the final scores: the keyword counts, with one more for the bonus bucket
WithBonus(counts) ==
    [high |-> counts.high + (IF BonusBucket = "high" THEN 1 ELSE 0),
     medium |-> counts.medium + (IF BonusBucket = "medium" THEN 1 ELSE 0),
     low |-> counts.low + (IF BonusBucket = "low" THEN 1 ELSE 0)]

\* the bucket whose final score is above both others, "none" in a tie
Greatest(sc) ==
    CASE sc.high > sc.medium /\ sc.high > sc.low -> "high"
      [] sc.medium > sc.high /\ sc.medium > sc.low -> "medium"
      [] sc.low > sc.high /\ sc.low > sc.medium -> "low"
      [] OTHER -> "none"

\* the scores of the analysed content are the scores final, and v is the
\* bucket of final that is above both others, when there is one
BonusThenGreatest(final, v) ==
    /\ ComplexityScores(toLowerCase(doc.content)) = final
    /\ Greatest(final) # "none" => v = Greatest(final)

\* C25: assessComplexity gives exactly one length bonus per document (to high
\* above 2000 characters, otherwise to medium above 500, otherwise to low),
\* and when the final score of one bucket is above those of both others, the
\* result is that bucket.
C25_OneBonusThenGreatest ==
    out.op = "assessComplexity" => BonusThenGreatest(WithBonus(KeywordCounts), out.v)

\* a content of more than 2000 characters with one high and one medium
\* keyword has been assessed "high": the bonus decides
C25_Witness ==
    /\ out.op = "assessComplexity"
    /\ HighCount = 1 /\ MediumCount = 1 /\ LowCount = 0
    /\ Len(doc.content) > 2000
    /\ out.v = "high"

\* C28: assessComplexity never returns 'unknown': one bucket always gets the
\* length bonus, so the result is 'low', 'medium' or 'high' for every
\* content, and 'low' for the empty content.
C28_NeverUnknown ==
    out.op = "assessComplexity" =>
        /\ out.v \in {"low", "medium", "high"}
        /\ doc.content = <<>> => out.v = "low"

\* the empty content has been assessed "low"
C28_Witness ==
    /\ out.op = "assessComplexity"
    /\ doc.content = <<>>
    /\ out.v = "low"

----------------------------------------------------------------------------
(* Properties of search_playbooks *)

\* the query asks for the full listing: it is missing, empty, '*' or 'all'
AsksForAll(q) == ~q.some \/ trim(q.v) = <<>> \/ q.v = <<"*">> \/ q.v = <<"a","l","l">>

\* the response is the full listing of the documents ds
IsFullListing(ds) ==
    /\ startsWith(ResponseText, <<"F","o","u","n","d"," ">> \o NatToDigits(Len(ds)) \o <<" ","t","o","t","a","l"," ","p","l","a","y","b","o","o","k","s",":","\n","\n">>)
    /\ \A k \in DOMAIN ds : includes(ResponseText, <<" "," "," ","-"," ","I","D",":"," ">> \o ds[k].id \o <<"\n">>)

\* the response reports the documents found, the result of searchDocuments
\* for the query q on ds: their names when there are some, and that none
\* matched otherwise
IsSearchResult(q, ds, found) ==
    IF Len(found) > 0
    THEN /\ startsWith(ResponseText, <<"F","o","u","n","d"," ">> \o NatToDigits(Len(found))
                                     \o <<" ","p","l","a","y","b","o","o","k","(","s",")"," ","m","a","t","c","h","i","n","g"," ","\"">> \o q \o <<"\"",":","\n","\n">>)
         /\ \A k \in DOMAIN ds :
               includes(ResponseText, <<"-"," ","*","*">> \o ds[k].name \o <<"*","*","\n">>)
                   <=> \E j \in DOMAIN found : found[j].name = ds[k].name
    ELSE startsWith(ResponseText, <<"F","o","u","n","d"," ">> \o NatToDigits(Len(ds))
                                  \o <<" ","t","o","t","a","l"," ","p","l","a","y","b","o","o","k","s",","," ","b","u","t"," ","n","o","n","e"," ","m","a","t","c","h","e","d"," ","\"">> \o q \o <<"\"">>)

\* search_playbooks has been answered on a folder with documents
Searched ==
    Answered /\ tool.name = <<"s","e","a","r","c","h","_","p","l","a","y","b","o","o","k","s">> /\ FolderDocs.docs # <<>>

\* C26: search_playbooks returns the full listing of the fetched playbooks
\* only when the query is empty, '*' or 'all'; every other query, 'install'
\* for one, is answered by searchDocuments and reports the matching documents.
C26_FullListingOnlyWhenAsked ==
    Searched =>
        IF AsksForAll(tool.args.query) THEN IsFullListing(FolderDocs.docs)
        ELSE IsSearchResult(tool.args.query.v, FolderDocs.docs,
                            searchDocuments(FolderDocs.docs, tool.args.query.v))

\* what the code does: the full listing is returned for every query that
\* holds 'all' in any letter case, the search result for the others
C26_FullListingWhenAllOccurs ==
    Searched =>
        IF AsksForAll(tool.args.query) \/ includes(toLowerCase(tool.args.query.v), <<"a","l","l">>)
        THEN IsFullListing(FolderDocs.docs)
        ELSE IsSearchResult(tool.args.query.v, FolderDocs.docs,
                            searchDocuments(FolderDocs.docs, tool.args.query.v))

\* the query 'install' has been answered with the full listing of two
\* documents of which one holds the word
C26_InstallListsAll ==
    /\ Searched
    /\ tool.args.query = Given(<<"i","n","s","t","a","l","l">>)
    /\ Len(FolderDocs.docs) = 2
    /\ Len(searchDocuments(FolderDocs.docs, <<"i","n","s","t","a","l","l">>)) = 1
    /\ IsFullListing(FolderDocs.docs)

----------------------------------------------------------------------------
(* Properties of the result list of searchDocuments *)

\* the result holds documents of the input only, each at most once, and
\* those of equal score in the order of the input
ReorderedSubset ==
    out.op = "searchDocuments" =>
        /\ \A i \in DOMAIN out.v : \E k \in DOMAIN docs : out.v[i] = docs[k]
        /\ \A i, j \in DOMAIN out.v : i # j => out.v[i] # out.v[j]
        /\ \A i, j \in DOMAIN out.v :
              (i < j /\ Score(out.v[i]) = Score(out.v[j]))
                  => PositionOf(docs, out.v[i].id) < PositionOf(docs, out.v[j].id)

\* C29: searchDocuments returns a reordering of a subset of its input: every
\* returned document is one of the input list, none is returned twice,
\* documents of equal score keep the order they have in the input, and the
\* input list and its documents are left as they were.
C29_ReorderedSubsetInputKept ==
    []ReorderedSubset /\ [][docs' = docs /\ query' = query]_vars

\* of three documents the one with the highest score was given last and is
\* returned first, before the two of equal score in their input order
C29_Witness ==
    /\ out.op = "searchDocuments"
    /\ query = <<"a","u","d","i","t"," ","h","u","b","s","p","o","t">>
    /\ Ids(docs) = <<<<"d","3">>, <<"d","2">>, <<"d","1">>>>
    /\ Ids(out.v) = <<<<"d","1">>, <<"d","3">>, <<"d","2">>>>

----------------------------------------------------------------------------
(* The server: requests to the tools and the resources, one at a time *)

Init ==
    /\ AnalyzerIdle
    /\ config = ServerConfig
    /\ remote \in Workspaces
    /\ ClientAtRest
    /\ ServerIdle

Next ==
    \/ CallTool \/ ListingReply \/ PagesReply \/ ScanWorkspace \/ Respond
    \/ ListResources \/ ReadResource \/ ResourceReply

Spec == Init /\ [][Next]_vars

\* the same server constructed with any of the tokens
InitToken ==
    /\ AnalyzerIdle
    /\ config \in TokenConfigs
    /\ remote \in Workspaces
    /\ ClientAtRest
    /\ ServerIdle

SpecToken == InitToken /\ [][Next]_vars
====
